---- MODULE Spec2Model ----
(***************************************************************************)
(* Model of src/BI_Sales.py, a Streamlit dashboard script.  Streamlit      *)
(* re-executes the whole script top to bottom for every user interaction   *)
(* of every browser session; st.session_state is per session, the working *)
(* directory (and so the file "temp.db") is shared by all sessions of the  *)
(* server process.                                                         *)
(*                                                                         *)
(* Part 1 models the upload / snapshot handling of concurrent sessions.    *)
(* Part 2 models one script pass over an uploaded snapshot: join, filter   *)
(* chain, KPI aggregation, ABC classification and the forecast stage.      *)
(***************************************************************************)
EXTENDS Integers, Sequences, FiniteSets, TLC

(***************************************************************************)
(* Bounds of the model.                                                    *)
(***************************************************************************)
NSessions == 2
MaxUploads == 2

NULL == "NULL"

(***************************************************************************)
(* PART 1 - sessions and the shared snapshot file                          *)
(***************************************************************************)
VARIABLES
    temp_db,        \* content of the file TEMP_DB_PATH ("temp.db"), NoFile if absent
    uploaded_file,  \* per session: value of the st.sidebar.file_uploader widget
    db_bytes,       \* per session: st.session_state["db_bytes"], NoFile if not set
    uploads,        \* per session slot: number of files uploaded through it so far
    session_start,  \* per session slot: value of `uploads` when its current session started
    pc,             \* per session: position of the running script pass
    f_read,         \* per session: the shared file as f.read() (line 293) of the running
                    \* pass found it when it took its first bytes, NoFile outside line 293
    file_conn,      \* per session: the shared file as the connection of line 300 found it
                    \* when it parsed the schema for line 304, NoFile before that
    processed_data, \* per session: the file whose processed_data table line 304 returned
                    \* to the running pass, NoFile before line 304
    rendered        \* per session: what the last finished pass showed

sessVars == <<temp_db, uploaded_file, db_bytes, uploads, session_start, pc, f_read, file_conn,
              processed_data, rendered>>

Sessions == 1..NSessions
\* The bytes of a file are those of one upload, all of them ("all") or a
\* first part of them ("part"), or they begin as that upload and go on
\* with bytes of others or after a gap ("mixed"); or the file holds no byte
\* ("empty"); "none" is no file.
NoFile == [owner |-> 0, ver |-> 0, bytes |-> "none"]
\* A database file is identified by the session that uploaded it and by the
\* ordinal of that upload in its session.
DBFiles == [owner : Sessions, ver : 1..MaxUploads, bytes : {"all"}]
\* line 289: what open(TEMP_DB_PATH, "wb") leaves in the file
EmptyFile == [owner |-> 0, ver |-> 0, bytes |-> "empty"]
\* bytes that begin as no upload; as a table read: rows that are not the
\* table of one upload (rows of several uploads, rows without their values)
MixedFile == [owner |-> 0, ver |-> 0, bytes |-> "mixed"]

\* line 284
TEMP_DB_PATH == "temp.db"

InitSessions ==
    /\ temp_db = NoFile
    /\ uploaded_file = [s \in Sessions |-> NoFile]
    /\ db_bytes = [s \in Sessions |-> NoFile]
    /\ uploads = [s \in Sessions |-> 0]
    /\ session_start = [s \in Sessions |-> 0]
    /\ pc = [s \in Sessions |-> "idle"]
    /\ f_read = [s \in Sessions |-> NoFile]
    /\ file_conn = [s \in Sessions |-> NoFile]
    /\ processed_data = [s \in Sessions |-> NoFile]
    /\ rendered = [s \in Sessions |-> [kind |-> "nothing", data |-> NoFile, master |-> NoFile]]

\* The user of session s picks a file in the uploader widget (line 282).
Upload(s) ==
    /\ pc[s] = "idle"
    /\ uploads[s] < MaxUploads
    /\ uploads' = [uploads EXCEPT ![s] = @ + 1]
    /\ uploaded_file' = [uploaded_file EXCEPT
                            ![s] = [owner |-> s, ver |-> uploads[s] + 1, bytes |-> "all"]]
    /\ UNCHANGED <<temp_db, db_bytes, session_start, pc, f_read, file_conn, processed_data,
                   rendered>>

\* The user of session s removes the file from the uploader widget (line 282).
RemoveUpload(s) ==
    /\ pc[s] = "idle"
    /\ uploaded_file[s] # NoFile
    /\ uploaded_file' = [uploaded_file EXCEPT ![s] = NoFile]
    /\ UNCHANGED <<temp_db, db_bytes, uploads, session_start, pc, f_read, file_conn,
                   processed_data, rendered>>

\* Lines 286-289, or 291-293 up to the first bytes f.read() takes, or
\* 296-298, of a script pass of session s: keep the upload in the session
\* and open the shared file for writing, which creates or empties it; or
\* open the shared file and begin to read it; or prompt and stop.
StoreSnapshot(s) ==
    /\ pc[s] = "idle"
    /\ IF uploaded_file[s] # NoFile
       THEN /\ db_bytes' = [db_bytes EXCEPT ![s] = uploaded_file[s]]
            /\ temp_db' = EmptyFile
            /\ pc' = [pc EXCEPT ![s] = "write"]
            /\ UNCHANGED <<f_read, rendered>>
       ELSE /\ UNCHANGED <<temp_db, db_bytes>>
            /\ IF db_bytes[s] = NoFile /\ temp_db # NoFile
               THEN /\ f_read' = [f_read EXCEPT ![s] = temp_db]
                    /\ pc' = [pc EXCEPT ![s] = "adopt"]
                    /\ UNCHANGED rendered
               ELSE IF db_bytes[s] = NoFile
               THEN /\ rendered' = [rendered EXCEPT ![s] = [kind |-> "upload prompt",
                                                            data |-> NoFile,
                                                            master |-> NoFile]]
                    /\ UNCHANGED <<pc, f_read>>
               ELSE /\ pc' = [pc EXCEPT ![s] = "connect"]
                    /\ UNCHANGED <<f_read, rendered>>
    /\ UNCHANGED <<uploaded_file, uploads, session_start, file_conn, processed_data>>

\* Line 293: the bytes f.read() returns when it took its first bytes from
\* the shared file as `head` and its last from the shared file as `file`.
\* f.read() reads on from where it stands until the file gives no more
\* bytes: nothing from a file without bytes; the file as it is when no
\* writer came between; after a writer came between, the first bytes of
\* `head` followed by what `file` holds behind them (the rest of the same
\* upload, bytes of another, or nothing).
ByteRead(head, file) ==
    LET part == [head EXCEPT !.bytes = "part"]
        mixed == [head EXCEPT !.bytes = "mixed"]
    IN  IF head = file \/ head.owner = 0 THEN {head}
        ELSE IF file.owner = head.owner /\ file.ver = head.ver
             THEN {file} \cup (IF head.bytes = "mixed" THEN {mixed} ELSE {})
        ELSE IF file = EmptyFile /\ head.bytes # "mixed" THEN {part}
        ELSE {part, mixed}

\* Lines 293-294 of a script pass of session s: f.read() ends, and the
\* bytes it returns become the session's db_bytes.
AdoptSnapshot(s) ==
    /\ pc[s] = "adopt"
    /\ \E bytes \in ByteRead(f_read[s], temp_db) :
        db_bytes' = [db_bytes EXCEPT ![s] = bytes]
    /\ f_read' = [f_read EXCEPT ![s] = NoFile]
    /\ pc' = [pc EXCEPT ![s] = "connect"]
    /\ UNCHANGED <<temp_db, uploaded_file, uploads, session_start, file_conn, processed_data,
                   rendered>>

\* Line 290 of a script pass of session s: f.write puts the bytes into the
\* shared file from the start of the file on, all at once (done from
\* "write") or a first part and then the rest.  Every writer empties the
\* file first (line 289), so bytes of another upload in the file were
\* written after this pass's line 289.  Written from the start over such
\* bytes, the upload covers them or is followed by what is left of them
\* (a mix that begins as the upload); the rest of the upload written after
\* another session has emptied the file leaves a gap at the start, and
\* written after another session's bytes it leaves a mix that begins as
\* that session's upload.
WriteSnapshot(s) ==
    /\ pc[s] \in {"write", "writing"}
    /\ LET f == db_bytes[s]
           part == [f EXCEPT !.bytes = "part"]
           mixed == [f EXCEPT !.bytes = "mixed"]
       IN  \E done \in BOOLEAN :
            /\ pc[s] = "writing" => done
            /\ temp_db' \in
                    IF pc[s] = "write"
                    THEN IF temp_db = EmptyFile THEN {IF done THEN f ELSE part}
                         ELSE {IF done THEN f ELSE part, mixed}
                    ELSE IF temp_db = part THEN {f}
                         ELSE IF temp_db = mixed THEN {f, mixed}
                         ELSE IF temp_db.owner = 0 THEN {MixedFile}
                         ELSE {[temp_db EXCEPT !.bytes = "mixed"]}
            /\ pc' = [pc EXCEPT ![s] = IF done THEN "connect" ELSE "writing"]
    /\ UNCHANGED <<uploaded_file, db_bytes, uploads, session_start, f_read, file_conn,
                   processed_data, rendered>>

\* Lines 304-305: what pd.read_sql_query gives through file_conn when the
\* shared file holds `file` as the read ends and held `parsed` when the
\* connection parsed the schema: the table of an upload (the upload), rows
\* that are not the table of one upload (MixedFile), or an exception
\* (NoFile).  The bytes of the file decide between them; the model keeps of
\* the bytes only which upload the file begins as and whether they are all
\* of it.  A file without bytes, or that begins as no upload, has no such
\* table.  The whole of an upload, parsed and read with no writer between,
\* gives its table.  A first part of an upload gives the table when it
\* holds the table's pages, rows without their values when a page is cut,
\* and is malformed otherwise.  A mix, and a file a writer has changed
\* since the connection parsed it, may give the table, rows of several
\* uploads, or be malformed: sqlite3 keeps the schema and the pages it has
\* read, and looks for the rest where the parsed upload had it.
TableRead(file, parsed) ==
    LET whole == [file EXCEPT !.bytes = "all"]
    IN  IF file.owner = 0 THEN {NoFile}
        ELSE IF file.bytes = "all" /\ parsed = file THEN {whole}
        ELSE {whole, MixedFile, NoFile}

\* Lines 300-304 (and 306-307): the connection parses the schema of the
\* shared file, whatever it holds at that moment ("connect"), and then
\* reads processed_data from the shared file, whatever it holds by then
\* ("read processed"); when the read raises, the pass shows the error and
\* stops.  An upload holds both tables here (Part 2 models the files that
\* do not).
ReadProcessed(s) ==
    /\ pc[s] \in {"connect", "read processed"}
    /\ \E processed \in IF pc[s] = "connect"
                        THEN IF temp_db.owner = 0 THEN {NoFile} ELSE {temp_db}
                        ELSE TableRead(temp_db, file_conn[s]) :
        IF processed = NoFile
        THEN /\ rendered' = [rendered EXCEPT ![s] = [kind |-> "error", data |-> NoFile,
                                                     master |-> NoFile]]
             /\ pc' = [pc EXCEPT ![s] = "idle"]
             /\ file_conn' = [file_conn EXCEPT ![s] = NoFile]
             /\ UNCHANGED processed_data
        ELSE IF pc[s] = "connect"
        THEN /\ file_conn' = [file_conn EXCEPT ![s] = temp_db]
             /\ pc' = [pc EXCEPT ![s] = "read processed"]
             /\ UNCHANGED <<processed_data, rendered>>
        ELSE /\ processed_data' = [processed_data EXCEPT ![s] = processed]
             /\ pc' = [pc EXCEPT ![s] = "read master"]
             /\ UNCHANGED <<file_conn, rendered>>
    /\ UNCHANGED <<temp_db, uploaded_file, db_bytes, uploads, session_start, f_read>>

\* Line 305 (and 306-307) and the rest of the pass: FGData is read through
\* the same connection from the shared file, whatever it holds by then, and
\* the dashboard is built from the two tables read.
ReadMaster(s) ==
    /\ pc[s] = "read master"
    /\ \E master \in TableRead(temp_db, file_conn[s]) :
        rendered' = [rendered EXCEPT ![s] =
                        IF master # NoFile
                        THEN [kind |-> "dashboard", data |-> processed_data[s],
                              master |-> master]
                        ELSE [kind |-> "error", data |-> NoFile, master |-> NoFile]]
    /\ processed_data' = [processed_data EXCEPT ![s] = NoFile]
    /\ file_conn' = [file_conn EXCEPT ![s] = NoFile]
    /\ pc' = [pc EXCEPT ![s] = "idle"]
    /\ UNCHANGED <<temp_db, uploaded_file, db_bytes, uploads, session_start, f_read>>

\* The session of slot s ends (the browser tab is closed) and a new session
\* starts in its place: st.session_state and the widgets of the old session
\* are discarded.  No line of the script removes or empties TEMP_DB_PATH.
EndSession(s) ==
    /\ pc[s] = "idle"
    /\ uploaded_file' = [uploaded_file EXCEPT ![s] = NoFile]
    /\ db_bytes' = [db_bytes EXCEPT ![s] = NoFile]
    /\ rendered' = [rendered EXCEPT ![s] = [kind |-> "nothing", data |-> NoFile,
                                            master |-> NoFile]]
    /\ session_start' = [session_start EXCEPT ![s] = uploads[s]]
    /\ UNCHANGED <<temp_db, uploads, pc, f_read, file_conn, processed_data>>


(***************************************************************************)
(* PART 2 - one script pass over a snapshot                                *)
(*                                                                         *)
(* A table is a sequence of rows; a row is a function from column name to  *)
(* value.  Text values are strings, a missing text value (None / NaN) is   *)
(* NULL.  Item ids are integers >= 1 and timestamps are integers YYMMDDHH; *)
(* a missing item id (NaN) and a missing timestamp (NaT) are 0.  Metric    *)
(* values are integers and never missing.                                  *)
(***************************************************************************)
VARIABLES
    db,         \* the snapshot: [tables, pcols, processed, mcols, master]
    env,        \* [statsmodels]: whether the import at lines 74-79 succeeded
    widgets,    \* the widget values the last pass ran with, the label it gave the
                \* toggle button and st.session_state['show_filtered_data'] after it
    merged,     \* the joined table of the last pass (lines 317-329)
    views,      \* the view after each filter stage of the last pass, as row labels
    df_view,    \* the filtered view of the last pass (line 483)
    offers,    \* the item choices and the date bounds the last pass offers
    kpi,        \* the KPI scalars of the last pass (lines 489-529)
    rollups,    \* the dimension rollups of the last pass (lines 855-968)
    abc,        \* the ABC ranking of the last pass (lines 990-1012)
    xyz,        \* xyz_source and classification_result of the last pass (lines 1014-1051)
    fc,         \* the trend / forecast stage of the last pass (lines 1151-1392)
    page        \* what the last pass emitted, in order

passVars == <<db, env, widgets, merged, views, df_view, offers, kpi, rollups, abc, xyz, fc,
              page>>

NaN == 0
NaT == 0
NoCol == "NoCol"

Range(f) == {f[i] : i \in DOMAIN f}
SetMin(S) == CHOOSE x \in S : \A y \in S : x <= y
SetMax(S) == CHOOSE x \in S : \A y \in S : x >= y

\* str.lower() on the column names and the search texts the model uses.
Lower(c) ==
    CASE c = "ItemNumber" -> "itemnumber"
      [] c = "ALP" -> "alp"
      [] c = "ITEMNUMBER" -> "itemnumber"
      [] c = "ItemName" -> "itemname"
      [] c = "Brand" -> "brand"
      [] c = "Category" -> "category"
      [] c = "Region" -> "region"
      [] c = "Family" -> "family"
      [] c = "Date" -> "date"
      [] OTHER -> c

\* `sub in c.lower()` for the substrings the script looks for (lines 369-401):
\* of the column names the model uses, those that hold one of these
\* substrings are that substring once in lower case.
ContainsLower(c, sub) ==
    Lower(c) = sub

\* next((c for c in columns if test(c)), None)
FirstCol(cols, passing) ==
    LET hits == {i \in 1..Len(cols) : cols[i] \in passing}
    IN  IF hits = {} THEN NoCol ELSE cols[SetMin(hits)]

\* pd.to_datetime(value, errors='coerce') on a raw date cell: a well-formed
\* date text (modelled by its timestamp code) parses, anything else is NaT.
ToDatetime(v) == IF v > 0 THEN v ELSE NaT

\* Timestamp YYMMDDHH: its calendar day, year-month period, year and month.
DayOf(ts) == ts \div 100
PeriodM(ts) == ts \div 10000
YearOf(ts) == ts \div 1000000
MonthNum(ts) == (ts \div 10000) % 100
\* pd.to_datetime(date): midnight of that day.
Midnight(day) == day * 100

\* The value a left join puts in a master column of an unmatched row.
NullOf(c) == IF Lower(c) = "itemnumber" THEN NaN ELSE NULL

\* line 313
MasterItemCol(mcols) == FirstCol(mcols, {c \in Range(mcols) : Lower(c) = "itemnumber"})
\* line 314
ProcessedItemCol(pcols) ==
    FirstCol(pcols, {c \in Range(pcols) : Lower(c) \in {"item_code", "itemnumber", "itemcode"}})

\* Rows of `master` joined to the processed row l (how="left").
JoinRow(l, mcols, master, lcol, rcol) ==
    LET m == SelectSeq(master, LAMBDA r : r[rcol] = l[lcol])
    IN  IF m = <<>>
        THEN << l @@ [c \in Range(mcols) |-> NullOf(c)] >>
        ELSE [i \in 1..Len(m) |-> l @@ m[i]]

RECURSIVE LeftJoin(_, _, _, _, _)
LeftJoin(processed, mcols, master, lcol, rcol) ==
    IF processed = <<>> THEN <<>>
    ELSE JoinRow(Head(processed), mcols, master, lcol, rcol)
         \o LeftJoin(Tail(processed), mcols, master, lcol, rcol)

\* line 326
DateColName(cols) == FirstCol(cols, {c \in Range(cols) : Lower(c) = "date"})

MergedColumns(d) == d.pcols \o d.mcols

\* Lines 317 and 326-329: the merged table with its fresh row labels 0..n-1
\* ("_idx") and, if there is a date column, the parsed "_date_dt".
Merge(d) ==
    LET j == LeftJoin(d.processed, d.mcols, d.master,
                      ProcessedItemCol(d.pcols), MasterItemCol(d.mcols))
        dc == DateColName(MergedColumns(d))
    IN  [i \in 1..Len(j) |->
            IF dc = NoCol
            THEN j[i] @@ ("_idx" :> i - 1)
            ELSE j[i] @@ ("_idx" :> i - 1) @@ ("_date_dt" :> ToDatetime(j[i][dc]))]

\* Column names of the merged table.
Columns(d) ==
    Range(MergedColumns(d)) \cup
        (IF DateColName(MergedColumns(d)) = NoCol THEN {} ELSE {"_date_dt"})

Labels(df) == [i \in 1..Len(df) |-> df[i]["_idx"]]

(***************************************************************************)
(* The filter chain, lines 368-483.                                        *)
(***************************************************************************)
\* lines 369, 377, 385, 393, 401
BrandCol(d) == FirstCol(MergedColumns(d), {c \in Range(MergedColumns(d)) : ContainsLower(c, "brand")})
CategoryCol(d) == FirstCol(MergedColumns(d), {c \in Range(MergedColumns(d)) : ContainsLower(c, "category")})
RegionCol(d) == FirstCol(MergedColumns(d), {c \in Range(MergedColumns(d)) : ContainsLower(c, "region")})
ClassCodeCol(d) ==
    FirstCol(MergedColumns(d), {c \in Range(MergedColumns(d)) : Lower(c) \in {"class_code", "class code"}})
FamilyCol(d) == FirstCol(MergedColumns(d), {c \in Range(MergedColumns(d)) : ContainsLower(c, "family")})
\* lines 409-410
ItemCol(d) == IF "ItemNumber" \in Range(MergedColumns(d)) THEN "ItemNumber" ELSE NoCol
ItemNameCol(d) ==
    FirstCol(MergedColumns(d), {c \in Range(MergedColumns(d)) : Lower(c) \in {"itemname", "item_name", "name"}})

\* sorted(df[col].dropna().unique().tolist()), as a set (lines 371, 379, 387, 395, 403)
Options(df, col) ==
    IF col = NoCol THEN {} ELSE {df[i][col] : i \in 1..Len(df)} \ {NULL}

\* df[df[col].isin(selected)]
IsIn(df, col, selected) == SelectSeq(df, LAMBDA r : r[col] \in selected)

\* Lines 370-374 (and 378-382, 386-390, 394-398): one multi-select stage.
MultiSelectStage(df, col, selected) ==
    IF col # NoCol /\ selected # {} THEN IsIn(df, col, selected) ELSE df

\* FamilyStage assigning the chosen family to the column instead of comparing.
FamilyStageAssign(df, col, selected_family) ==
    IF col # NoCol /\ selected_family # "All"
    THEN [i \in 1..Len(df) |-> [df[i] EXCEPT ![col] = selected_family]]
    ELSE df

\* Lines 402-406: the family stage; "All" applies no filter.
FamilyStage(df, col, selected_family) ==
    IF col # NoCol /\ selected_family # "All"
    THEN SelectSeq(df, LAMBDA r : r[col] = selected_family)
    ELSE df

\* Lines 411-467: the items offers (item ids present in the view) and the
\* item stage; 0 stands for the choice "All".
ItemOptions(df, col) ==
    IF col = NoCol THEN {} ELSE {df[i][col] : i \in 1..Len(df)} \ {NaN}

ItemStage(df, col, selected_item) ==
    IF col # NoCol /\ selected_item # 0
    THEN SelectSeq(df, LAMBDA r : r[col] = selected_item)
    ELSE df

\* Lines 411-466: the item choices offers for the search text.  With an
\* item-name column the text is matched as a regular expression
\* (Series.str.contains) against the lower-cased id, name and "id - name"
\* label of each item of the view, and a text that is no regular expression
\* ("(") raises; without one it is matched as a substring of the id.  No
\* match leaves the full list, with a notice.  The texts tried: "alp" and
\* "ALP" are part of the name "alpha", "1" of the id and label of item 1, "zzz"
\* and "(" of nothing.
ItemSearch(df, d, search_query) ==
    LET items == ItemOptions(df, ItemCol(d))
        lowered == Lower(search_query)
        name(x) == LET i == CHOOSE i \in 1..Len(df) : df[i][ItemCol(d)] = x
                   IN  df[i][ItemNameCol(d)]
        hit(x) == \/ lowered = "1" /\ x = 1
                  \/ lowered = "alp" /\ ItemNameCol(d) # NoCol /\ name(x) = "alpha"
        filtered == IF search_query # "" THEN {x \in items : hit(x)} ELSE items
    IN  IF ItemCol(d) = NoCol
        THEN [raises |-> FALSE, no_match |-> FALSE, items |-> {}]
        ELSE [raises |-> ItemNameCol(d) # NoCol /\ lowered = "(",
              no_match |-> filtered = {},
              items |-> IF filtered = {} THEN items ELSE filtered]

\* What a pass that offers no item choice and no date range records.
NoOffer == [items |-> {}, no_match |-> FALSE, date_min |-> 0, date_max |-> 0]

\* Line 470: the date filter is offers.
HasDates(d, m) ==
    /\ "_date_dt" \in Columns(d)
    /\ \E i \in 1..Len(m) : m[i]["_date_dt"] # NaT

ValidDates(df) == {df[i]["_date_dt"] : i \in 1..Len(df)} \ {NaT}

\* lines 471-472
DateMin(m) == DayOf(SetMin(ValidDates(m)))
DateMax(m) == DayOf(SetMax(ValidDates(m)))

\* DateBounds taken from the filtered view.
DateBoundsOfView(m, df) ==
    IF ValidDates(df) # {}
    THEN [date_min |-> DateMin(df), date_max |-> DateMax(df)]
    ELSE [date_min |-> 0, date_max |-> 0]

\* Lines 471-478: the bounds (and the default) of the date_input.  At this
\* point `merged` (m) is the joined table and df_view (df) the view after the
\* item stage; the script takes the bounds from `merged`.
DateBounds(m, df) == [date_min |-> DateMin(m), date_max |-> DateMax(m)]

\* Series.between(start_dt, end_dt, inclusive='both'); NaT compares False.
Between(ts, lo, hi) == ts # NaT /\ lo <= ts /\ ts <= hi

\* Lines 480-483: date_range is the tuple the date_input returned.
DateStage(df, offered, date_range) ==
    IF offered /\ Len(date_range) = 2
    THEN SelectSeq(df, LAMBDA r :
            Between(r["_date_dt"], Midnight(date_range[1]), Midnight(date_range[2])))
    ELSE df

(***************************************************************************)
(* Metric selection, lines 336-366.                                        *)
(***************************************************************************)
\* Lines 340-344: the columns offers by the "Metric focus" radio.
VolValOptions(cols) ==
    (IF "qty_soldx" \in cols THEN {"qty_soldx"} ELSE {})
        \cup (IF "sold_amount" \in cols THEN {"sold_amount"} ELSE {})

\* Line 343: everything from line 346 to the end of the script is the body of
\* `if 'sold_amount' in df_view.columns:`.
BodyRuns(cols) == "sold_amount" \in cols

(***************************************************************************)
(* KPI aggregator, lines 489-529.                                          *)
(***************************************************************************)
RECURSIVE SumCol(_, _)
SumCol(df, col) ==
    IF df = <<>> THEN 0 ELSE Head(df)[col] + SumCol(Tail(df), col)

\* df[col].sum() if col in df.columns else 0
TotalOf(df, cols, col) == IF col \in cols THEN SumCol(df, col) ELSE 0

\* lines 491-496
TotalSales(df, cols) ==
    IF "sold_amount" \in cols THEN SumCol(df, "sold_amount")
    ELSE IF "sales" \in cols THEN SumCol(df, "sales")
    ELSE 0

\* Guarded without the test of the denominator.
Unguarded(n, d) == [num |-> n, den |-> d]

\* (n / d) if d else 0, as the exact fraction num/den.
Guarded(n, d) == IF d # 0 THEN [num |-> n, den |-> d] ELSE [num |-> 0, den |-> 1]

\* line 501: df[item_col].nunique()
UniqueItems(df, item_col) ==
    IF item_col = NoCol THEN 0 ELSE Cardinality(ItemOptions(df, item_col))

\* MonthsInView counting calendar months of the year (dt.month) in place of
\* year-month periods.
MonthsInViewByMonthNum(df, cols) ==
    IF "_date_dt" \in cols
    THEN Cardinality({MonthNum(ts) : ts \in ValidDates(df)})
    ELSE 0

\* lines 523-525: distinct year-month periods of the valid dates
MonthsInView(df, cols) ==
    IF "_date_dt" \in cols
    THEN Cardinality({PeriodM(ts) : ts \in ValidDates(df)})
    ELSE 0

NoKPI ==
    [shown |-> FALSE, total_qty |-> 0, total_returns |-> 0, total_sales |-> 0,
     total_discount |-> 0, returns_pct |-> Guarded(0, 0), discount_pct |-> Guarded(0, 0),
     kg_price |-> Guarded(0, 0), unique_items |-> 0, metric_total |-> 0,
     metric_avg_per_item |-> Guarded(0, 0), months_in_view |-> 0,
     monthly_metric |-> Guarded(0, 0), monthly_qty |-> Guarded(0, 0),
     monthly_returns |-> Guarded(0, 0), monthly_sales |-> Guarded(0, 0)]

\* lines 489-529
KPI(df, cols, item_col, metric_col) ==
    LET total_qty == TotalOf(df, cols, "qty_soldx")
        total_returns == TotalOf(df, cols, "qty_returnedx")
        total_sales == TotalSales(df, cols)
        total_discount == TotalOf(df, cols, "total_disc")
        unique_items == UniqueItems(df, item_col)
        metric_total == IF metric_col # NoCol THEN TotalOf(df, cols, metric_col) ELSE 0
        months_in_view == MonthsInView(df, cols)
    IN  [shown |-> TRUE,
         total_qty |-> total_qty,
         total_returns |-> total_returns,
         total_sales |-> total_sales,
         total_discount |-> total_discount,
         returns_pct |-> Guarded(total_returns * 100, total_qty),
         discount_pct |-> Guarded(total_discount * 100, total_sales),
         kg_price |-> Guarded(total_sales, total_qty),
         unique_items |-> unique_items,
         metric_total |-> metric_total,
         metric_avg_per_item |-> Guarded(metric_total, unique_items),
         months_in_view |-> months_in_view,
         monthly_metric |-> Guarded(metric_total, months_in_view),
         monthly_qty |-> Guarded(total_qty, months_in_view),
         monthly_returns |-> Guarded(total_returns, months_in_view),
         monthly_sales |-> Guarded(total_sales, months_in_view)]

(***************************************************************************)
(* ABC classification, lines 979-1012.                                     *)
(***************************************************************************)
\* groupby(item_col)[metric_col].sum() for one item
ItemTotal(df, item_col, metric_col, item) ==
    SumCol(SelectSeq(df, LAMBDA r : r[item_col] = item), metric_col)

\* Lines 990-995: sort_values('metric_total', ascending=False) over the
\* groupby result, which is ordered by item id; equal totals keep that order.
\* AbcItems keeping the items whose sum is 0.
AbcItemsNonNegative(df, item_col, metric_col) ==
    {x \in ItemOptions(df, item_col) : ItemTotal(df, item_col, metric_col, x) >= 0}

\* line 996: items whose sum is > 0
AbcItems(df, item_col, metric_col) ==
    {x \in ItemOptions(df, item_col) : ItemTotal(df, item_col, metric_col, x) > 0}

\* classify_abc without the class C.
classify_abc_two_classes(pct) ==
    IF pct.num <= 80 * pct.den THEN "A" ELSE "B"

\* classify_abc with strict comparisons.
classify_abc_strict(pct) ==
    IF pct.num < 80 * pct.den THEN "A"
    ELSE IF pct.num < 95 * pct.den THEN "B"
    ELSE "C"

\* lines 1005-1010; pct is the exact fraction num/den, den > 0
classify_abc(pct) ==
    IF pct.num <= 80 * pct.den THEN "A"
    ELSE IF pct.num <= 95 * pct.den THEN "B"
    ELSE "C"

\* The ranking of lines 990-996 as a sequence of [item, metric_total].
Ranked(df, item_col, metric_col) ==
    LET items == AbcItems(df, item_col, metric_col)
        tot == [x \in items |-> ItemTotal(df, item_col, metric_col, x)]
        before(y, x) == tot[y] > tot[x] \/ (tot[y] = tot[x] /\ y < x)
        at == [k \in 1..Cardinality(items) |->
                CHOOSE x \in items : Cardinality({y \in items : before(y, x)}) = k - 1]
    IN  [k \in 1..Cardinality(items) |-> [item |-> at[k], metric_total |-> tot[at[k]]]]

\* Series.cumsum() up to position k
CumSum(ranked, k) == SumCol(SubSeq(ranked, 1, k), "metric_total")

\* AbcClass deciding by the item's own share instead of the running sum.
AbcClassOwnShare(ranked, k) ==
    classify_abc([num |-> ranked[k].metric_total * 100,
                  den |-> SumCol(ranked, "metric_total")])

\* Lines 999-1012: the class of the item at position k, decided by
\* cumulative_pct = cumsum / overall_total * 100.
AbcClass(ranked, k) ==
    classify_abc([num |-> CumSum(ranked, k) * 100, den |-> SumCol(ranked, "metric_total")])

\* Lines 990-1012: abc_source with its cumulative_pct and ABC columns, in
\* ranking order.
AbcSource(df, item_col, metric_col) ==
    LET ranked == Ranked(df, item_col, metric_col)
        overall_total == SumCol(ranked, "metric_total")
    IN  [k \in 1..Len(ranked) |->
            [item |-> ranked[k].item,
             metric_total |-> ranked[k].metric_total,
             cumulative_pct |-> [num |-> CumSum(ranked, k) * 100, den |-> overall_total],
             ABC |-> AbcClass(ranked, k)]]

(***************************************************************************)
(* Monthly trend and forecast, lines 1151-1392.                            *)
(***************************************************************************)
\* The elements of a set of integers in ascending order.
SortedSeq(S) ==
    [k \in 1..Cardinality(S) |-> CHOOSE x \in S : Cardinality({y \in S : y < x}) = k - 1]

\* Lines 1161-1168: metric sums per calendar month (period YYMM), ascending.
Monthly(df, metric_col) ==
    LET months == SortedSeq({PeriodM(ts) : ts \in ValidDates(df)})
    IN  [k \in 1..Len(months) |->
            [Month |-> months[k],
             MetricValue |-> SumCol(SelectSeq(df, LAMBDA r :
                    r["_date_dt"] # NaT /\ PeriodM(r["_date_dt"]) = months[k]), metric_col)]]

\* First day (YYMMDD) of the month of a period YYMM.
MonthStart(p) == p * 100 + 1

\* lines 1172-1173
TrainingMin(monthly) == MonthStart(monthly[1].Month)
TrainingMax(monthly) == MonthStart(monthly[Len(monthly)].Month)

\* TrainingBounds taking the two dates in the order given.
TrainingBoundsAsGiven(training_selection) ==
    IF Len(training_selection) = 2
    THEN <<Midnight(training_selection[1]), Midnight(training_selection[2])>>
    ELSE LET training_start == [i \in 1..Len(training_selection) |->
                                    Midnight(training_selection[i])]
         IN  <<training_start, training_start>>

\* Lines 1181-1189: the two dates of a selection of two dates, swapped if out
\* of order.  Of any other selection (the 1-tuple of a range being picked)
\* pd.to_datetime gives the index of its timestamps, which is both bounds;
\* an index of one timestamp is not greater than itself (line 1188).
TrainingBounds(training_selection) ==
    IF Len(training_selection) = 2
    THEN LET training_start == Midnight(training_selection[1])
             training_end == Midnight(training_selection[2])
         IN  IF training_start > training_end
             THEN <<training_end, training_start>>
             ELSE <<training_start, training_end>>
    ELSE LET training_start == [i \in 1..Len(training_selection) |->
                                    Midnight(training_selection[i])]
         IN  <<training_start, training_start>>

\* Lines 1191-1192: the column monthly['MonthStart'] compared with bounds
\* that are an index is compared element by element, and pandas raises
\* ValueError ("Lengths must match to compare") unless the lengths agree.
\* No try encloses these lines.
TrainingMaskRaises(monthly, training_selection) ==
    Len(training_selection) # 2 /\ Len(training_selection) # Len(monthly)

\* Lines 1191-1193: the months between the bounds; between the elements of
\* the bounds at the same position when the bounds are an index.
MonthlyTraining(monthly, training_selection) ==
    LET b == TrainingBounds(training_selection)
    IN  IF Len(training_selection) = 2
        THEN SelectSeq(monthly, LAMBDA r :
                Midnight(MonthStart(r.Month)) >= b[1] /\ Midnight(MonthStart(r.Month)) <= b[2])
        ELSE LET ks == SortedSeq({k \in 1..Len(monthly) :
                            /\ Midnight(MonthStart(monthly[k].Month)) >= b[1][k]
                            /\ Midnight(MonthStart(monthly[k].Month)) <= b[2][k]})
             IN  [i \in 1..Len(ks) |-> monthly[ks[i]]]

NextMonth(p) == IF p % 100 = 12 THEN p + 89 ELSE p + 1

RECURSIVE MonthSpan(_, _)
MonthSpan(first, last) ==
    IF first > last THEN <<>> ELSE <<first>> \o MonthSpan(NextMonth(first), last)

\* Lines 1263-1264: resample('MS').sum() over the training months; a month
\* without data inside the span gets the sum 0.
Resample(monthly_training) ==
    LET span == MonthSpan(monthly_training[1].Month,
                          monthly_training[Len(monthly_training)].Month)
        value(p) == SumCol(SelectSeq(monthly_training, LAMBDA r : r.Month = p), "MetricValue")
    IN  [k \in 1..Len(span) |-> [Month |-> span[k], MetricValue |-> value(span[k])]]

\* line 1260
MinTrainingMonths == 12
EnoughMonths(monthly_training) == Len(monthly_training) >= MinTrainingMonths

\* Lines 1266-1274: statsmodels' ExponentialSmoothing(...).fit().forecast(h).
\* The library either raises or returns h values; which values is not
\* decided by this script, so the outcome `fit` is an input of the pass:
\* [raises, level, slope], the projection being level + slope * i.
Projection(fit, horizon) == [i \in 1..horizon |-> fit.level + fit.slope * i]

\* Lines 1276-1279: the factor applied to the projection, in thousandths;
\* manual_growth_pct is given in tenths of a percent (the widget's step).
GrowthFactorMilli(growth_tenths) == 1000 + growth_tenths

\* ApplyGrowth with the factor pct / 100 in place of 1 + pct / 100.
ApplyGrowthNoBase(projection, growth_tenths) ==
    IF growth_tenths # 0
    THEN [i \in DOMAIN projection |-> projection[i] * growth_tenths]
    ELSE [i \in DOMAIN projection |-> projection[i] * 1000]

\* Lines 1274-1279: the forecast values in thousandths.
ApplyGrowth(projection, growth_tenths) ==
    IF growth_tenths # 0
    THEN [i \in DOMAIN projection |-> projection[i] * GrowthFactorMilli(growth_tenths)]
    ELSE [i \in DOMAIN projection |-> projection[i] * 1000]

\* Lines 1284-1287: the months of the forecast points, following the last
\* month of the resampled training series.
RECURSIVE MonthsAfter(_, _)
MonthsAfter(p, n) ==
    IF n = 0 THEN <<>> ELSE <<NextMonth(p)>> \o MonthsAfter(NextMonth(p), n - 1)

NoForecast ==
    [window |-> FALSE, monthly |-> <<>>, monthly_training |-> <<>>, fit_called |-> FALSE,
     raised |-> FALSE, projection |-> <<>>, actual |-> <<>>, forecast |-> <<>>,
     seasonal |-> <<>>, growth |-> <<>>]

\* Lines 1214-1228: the sign test on overall_mean, the mean over calendar
\* months of the per-month row averages.  overall_mean is zero exactly when
\* the sum over months of sum_m / count_m is; the sum is taken over the
\* common denominator (the product of the counts).
RECURSIVE Product(_)
Product(s) == IF s = <<>> THEN 1 ELSE Head(s) * Product(Tail(s))

SeasonalMeanNonZero(df, metric_col) ==
    LET dated == SelectSeq(df, LAMBDA r : r["_date_dt"] # NaT)
        nums == SortedSeq({MonthNum(dated[i]["_date_dt"]) : i \in 1..Len(dated)})
        rowsOf(m) == SelectSeq(dated, LAMBDA r : MonthNum(r["_date_dt"]) = m)
        counts == [k \in 1..Len(nums) |-> Len(rowsOf(nums[k]))]
        terms == [k \in 1..Len(nums) |->
                    [v |-> SumCol(rowsOf(nums[k]), metric_col)
                            * (Product(counts) \div counts[k])]]
    IN  SumCol(terms, "v") # 0

\* Lines 1214-1228: seasonal_summary with its SeasonalIndex column, one row
\* per calendar month (1..12) that has a dated row, in month order; empty if
\* overall_mean is 0 (the index is then not computed).  avg_metric is the
\* exact fraction sum / count of the month's rows; with P the product of the
\* counts and T the sum over the months of sum_m * P / count_m, overall_mean
\* is T / (P * n) and SeasonalIndex = avg_metric / overall_mean is
\* sum_m * n * (P / count_m) / T.
SeasonalSummary(df, metric_col) ==
    LET dated == SelectSeq(df, LAMBDA r : r["_date_dt"] # NaT)
        nums == SortedSeq({MonthNum(dated[i]["_date_dt"]) : i \in 1..Len(dated)})
        rowsOf(m) == SelectSeq(dated, LAMBDA r : MonthNum(r["_date_dt"]) = m)
        sums == [k \in 1..Len(nums) |-> SumCol(rowsOf(nums[k]), metric_col)]
        counts == [k \in 1..Len(nums) |-> Len(rowsOf(nums[k]))]
        P == Product(counts)
        terms == [k \in 1..Len(nums) |-> [v |-> sums[k] * (P \div counts[k])]]
        T == SumCol(terms, "v")
    IN  IF T # 0
        THEN [k \in 1..Len(nums) |->
                [MonthNum |-> nums[k],
                 avg_metric |-> [num |-> sums[k], den |-> counts[k]],
                 SeasonalIndex |-> [num |-> terms[k].v * Len(nums), den |-> T]]]
        ELSE <<>>

\* GrowthTable listing a year that has both kinds of months twice, once per
\* kind, as the concatenation of line 1322 does before it is grouped.
GrowthTableUnmerged(monthly_training, forecast) ==
    LET histYears == SortedSeq({monthly_training[i].Month \div 100 :
                                    i \in 1..Len(monthly_training)})
        fcYears == SortedSeq({forecast[i].Month \div 100 : i \in 1..Len(forecast)})
        hist(y) == 1000 * SumCol(SelectSeq(monthly_training,
                                    LAMBDA r : r.Month \div 100 = y), "MetricValue")
        fcst(y) == SumCol(SelectSeq(forecast, LAMBDA r : r.Month \div 100 = y), "Milli")
        rows == [k \in 1..Len(histYears) |->
                    [Year |-> histYears[k], TotalMilli |-> hist(histYears[k]), Type |-> "Actual"]]
                \o [k \in 1..Len(fcYears) |->
                    [Year |-> fcYears[k], TotalMilli |-> fcst(fcYears[k]), Type |-> "Forecast"]]
    IN  [k \in 1..Len(rows) |->
            [Year |-> rows[k].Year, TotalMilli |-> rows[k].TotalMilli, Type |-> rows[k].Type,
             YoY |-> IF k = 1 THEN [na |-> TRUE, num |-> 0, den |-> 1]
                     ELSE [na |-> FALSE,
                           num |-> (rows[k].TotalMilli - rows[k - 1].TotalMilli) * 100,
                           den |-> rows[k - 1].TotalMilli]]]

\* Lines 1303-1329: growth_df.  One row per year of the training months and
\* of the forecast months, in year order; TotalMilli is the year's total in
\* thousandths (actual values plus forecast values); Type is "Actual",
\* "Forecast" or "Actual+Forecast"; YoY is pct_change() * 100 as the exact
\* quotient num / den (den is the previous total, which may be 0), missing
\* (na) on the first row.
GrowthTable(monthly_training, forecast) ==
    LET histYears == {monthly_training[i].Month \div 100 : i \in 1..Len(monthly_training)}
        fcYears == {forecast[i].Month \div 100 : i \in 1..Len(forecast)}
        years == SortedSeq(histYears \cup fcYears)
        hist(y) == 1000 * SumCol(SelectSeq(monthly_training,
                                    LAMBDA r : r.Month \div 100 = y), "MetricValue")
        fcst(y) == SumCol(SelectSeq(forecast, LAMBDA r : r.Month \div 100 = y), "Milli")
        total(y) == hist(y) + fcst(y)
        type(y) == IF y \in histYears /\ y \in fcYears THEN "Actual+Forecast"
                   ELSE IF y \in histYears THEN "Actual" ELSE "Forecast"
    IN  [k \in 1..Len(years) |->
            [Year |-> years[k], TotalMilli |-> total(years[k]), Type |-> type(years[k]),
             YoY |-> IF k = 1 THEN [na |-> TRUE, num |-> 0, den |-> 1]
                     ELSE [na |-> FALSE,
                           num |-> (total(years[k]) - total(years[k - 1])) * 100,
                           den |-> total(years[k - 1])]]]

\* Lines 1254-1388: the forecast stage; returns the stage's record and what
\* it emits.
ForecastStage(monthly, monthly_training, statsmodels, w, metric_col) ==
    LET base == [NoForecast EXCEPT !.window = TRUE, !.monthly = monthly,
                                   !.monthly_training = monthly_training]
    IN  IF ~statsmodels
        THEN [fc |-> base, page |-> <<"info: forecasts require statsmodels">>]
        ELSE IF EnoughMonths(monthly_training)
        THEN LET monthly_ts == Resample(monthly_training)
                 projection == Projection(w.fit, w.forecast_horizon)
                 months == MonthsAfter(monthly_ts[Len(monthly_ts)].Month, w.forecast_horizon)
                 forecast == [i \in 1..w.forecast_horizon |->
                                [Month |-> months[i],
                                 Milli |-> ApplyGrowth(projection, w.manual_growth_pct)[i]]]
             IN  IF w.fit.raises
                 THEN [fc |-> [base EXCEPT !.fit_called = TRUE, !.raised = TRUE],
                       page |-> <<"forecast heading", "warning: unable to compute forecast">>]
                 ELSE [fc |-> [base EXCEPT !.fit_called = TRUE,
                                  !.projection = projection,
                                  !.actual = monthly_ts,
                                  !.forecast = forecast,
                                  !.growth = GrowthTable(monthly_training, forecast)],
                       page |-> <<"forecast heading", "forecast chart", "forecast download",
                                  "growth heading", "growth chart", "growth table",
                                  "growth download", "forecast caption">>]
        ELSE [fc |-> base, page |-> <<"info: need at least 12 months">>]

\* Lines 1151-1392: trend chart, seasonal index and forecast.
TrendStage(df, cols, date_col_name, statsmodels, w, metric_col) ==
    IF metric_col # NoCol /\ metric_col \in cols
        /\ ("_date_dt" \in cols \/ date_col_name # NoCol)
    THEN IF ValidDates(df) # {}
         THEN LET monthly == Monthly(df, metric_col)
                  monthly_training == MonthlyTraining(monthly, w.training_selection)
                  f == ForecastStage(monthly, monthly_training, statsmodels, w, metric_col)
              IN  IF TrainingMaskRaises(monthly, w.training_selection)
                  THEN \* the exception of lines 1191-1192 ends the pass
                       [fc |-> [NoForecast EXCEPT !.window = TRUE, !.monthly = monthly],
                        page |-> <<"trend heading", "exception: training window">>]
                  ELSE
                  [fc |-> [f.fc EXCEPT !.seasonal = SeasonalSummary(df, metric_col)],
                   page |-> <<"trend heading", "trend chart">>
                            \o (IF SeasonalMeanNonZero(df, metric_col)
                                THEN <<"seasonal index">>
                                ELSE <<"info: not enough variation">>)
                            \o f.page]
         ELSE [fc |-> NoForecast,
               page |-> <<"trend heading", "info: no valid date values">>]
    ELSE [fc |-> NoForecast, page |-> <<"info: metric or date column not available">>]

(***************************************************************************)
(* XYZ classification and the classification result, lines 1014-1051.      *)
(* A coefficient of variation is kept exact: kind "inf" is float('inf'),   *)
(* kind "na" a missing value, and kind "num" the number of sign `neg`      *)
(* (TRUE: the mean is negative) whose square is sq_num / sq_den.           *)
(***************************************************************************)
\* ItemMonths counting every month of the view, so that a month without a
\* row of the item enters its series as a zero.
ItemMonthsImputed(df, item_col, item) ==
    {PeriodM(ts) : ts \in ValidDates(df)}

\* Lines 1016-1022: the months in which the item has a dated row, and the
\* item's sum in such a month.  groupby drops the rows without an item id.
ItemMonths(df, item_col, item) ==
    {PeriodM(df[i]["_date_dt"]) :
        i \in {j \in 1..Len(df) : df[j][item_col] = item /\ df[j]["_date_dt"] # NaT}}

MonthlyMetric(df, item_col, metric_col, item, month) ==
    SumCol(SelectSeq(df, LAMBDA r : r[item_col] = item /\ r["_date_dt"] # NaT
                                    /\ PeriodM(r["_date_dt"]) = month), metric_col)

\* Lines 1016-1022: monthly_item, the rows of one item, by month.
MonthlyItem(df, item_col, metric_col, item) ==
    LET months == SortedSeq(ItemMonths(df, item_col, item))
    IN  [k \in 1..Len(months) |->
            LET v == MonthlyMetric(df, item_col, metric_col, item, months[k])
            IN  [month |-> months[k], monthly_metric |-> v, square |-> v * v]]

\* The items of monthly_item.
DatedItems(df, item_col) ==
    {df[i][item_col] : i \in {j \in 1..Len(df) : df[j]["_date_dt"] # NaT}} \ {NaN}

\* CoefficientOfVariation without line 1030: the missing std of a single
\* value is not filled, and the cv is missing.
CoefficientOfVariationUnfilled(n, s, q) ==
    IF s = 0
    THEN [kind |-> "inf", neg |-> FALSE, sq_num |-> 0, sq_den |-> 1]
    ELSE IF n = 1
    THEN [kind |-> "na", neg |-> FALSE, sq_num |-> 0, sq_den |-> 1]
    ELSE [kind |-> "num", neg |-> s < 0,
          sq_num |-> n * (n * q - s * s), sq_den |-> (n - 1) * s * s]

\* Lines 1031-1034 after 1024-1030: std / mean over n monthly values of sum s
\* and sum of squares q.  The sample variance is (n q - s^2) / (n (n - 1)); a
\* single value has no std, which line 1030 fills with 0.
CoefficientOfVariation(n, s, q) ==
    IF s = 0
    THEN [kind |-> "inf", neg |-> FALSE, sq_num |-> 0, sq_den |-> 1]
    ELSE IF n = 1
    THEN [kind |-> "num", neg |-> s < 0, sq_num |-> 0, sq_den |-> 1]
    ELSE [kind |-> "num", neg |-> s < 0,
          sq_num |-> n * (n * q - s * s), sq_den |-> (n - 1) * s * s]

\* Lines 1036-1041: cv <= 0.5 and cv <= 1.0, on the squares when cv >= 0.
classify_xyz(cv) ==
    IF cv.kind = "inf" THEN "Z"
    ELSE IF cv.neg THEN "X"
    ELSE IF 4 * cv.sq_num <= cv.sq_den THEN "X"
    ELSE IF cv.sq_num <= cv.sq_den THEN "Y"
    ELSE "Z"

\* Lines 1024-1044: variability, one row per item of monthly_item, by item id.
Variability(df, item_col, metric_col) ==
    LET items == SortedSeq(DatedItems(df, item_col))
        Row(item, mi, cv) ==
            [item |-> item, months |-> Len(mi), sum |-> SumCol(mi, "monthly_metric"),
             cv |-> cv, XYZ |-> classify_xyz(cv)]
        OfItem(item, mi) ==
            Row(item, mi, CoefficientOfVariation(Len(mi), SumCol(mi, "monthly_metric"),
                                                 SumCol(mi, "square")))
    IN  [k \in 1..Len(items) |->
            OfItem(items[k], MonthlyItem(df, item_col, metric_col, items[k]))]

\* XyzSource taking an empty monthly_item for a result.
XyzSourceIfDated(df, cols, item_col, metric_col) ==
    IF "_date_dt" \in cols /\ ValidDates(df) # {}
    THEN [none |-> FALSE, rows |-> Variability(df, item_col, metric_col)]
    ELSE [none |-> TRUE, rows |-> <<>>]

\* Lines 1014-1044: xyz_source; `none` is TRUE where the code leaves it None.
XyzSource(df, cols, item_col, metric_col) ==
    LET Source(variability) ==
            IF "_date_dt" \in cols /\ ValidDates(df) # {} /\ variability # <<>>
            THEN [none |-> FALSE, rows |-> variability]
            ELSE [none |-> TRUE, rows |-> <<>>]
    IN  Source(Variability(df, item_col, metric_col))

NoCV == [kind |-> "na", neg |-> FALSE, sq_num |-> 0, sq_den |-> 1]

\* ClassificationResult with an inner join in place of the left join.
ClassificationResultInner(abc_source, xyz_source) ==
    LET joined == [k \in 1..Len(abc_source) |->
            LET hit == {j \in 1..Len(xyz_source.rows) :
                            xyz_source.rows[j].item = abc_source[k].item}
            IN  IF hit = {}
                THEN [item |-> NaN, ABC |-> abc_source[k].ABC, XYZ |-> "Z", cv |-> NoCV]
                ELSE LET j == CHOOSE x \in hit : TRUE
                     IN  [item |-> abc_source[k].item, ABC |-> abc_source[k].ABC,
                          XYZ |-> xyz_source.rows[j].XYZ, cv |-> xyz_source.rows[j].cv]]
    IN  SelectSeq(joined, LAMBDA r : r.item # NaN)

\* Lines 1046-1051: abc_source left-joined with xyz_source on the item id (or
\* given cv = NA, XYZ = "Z" throughout), a missing XYZ filled with "Z".
ClassificationResult(abc_source, xyz_source) ==
    [k \in 1..Len(abc_source) |->
        LET hit == {j \in 1..Len(xyz_source.rows) :
                        xyz_source.rows[j].item = abc_source[k].item}
        IN  IF hit = {}
            THEN [item |-> abc_source[k].item, ABC |-> abc_source[k].ABC,
                  XYZ |-> "Z", cv |-> NoCV]
            ELSE LET j == CHOOSE x \in hit : TRUE
                 IN  [item |-> abc_source[k].item, ABC |-> abc_source[k].ABC,
                      XYZ |-> xyz_source.rows[j].XYZ, cv |-> xyz_source.rows[j].cv]]

NoXYZ == [none |-> TRUE, rows |-> <<>>, result |-> <<>>]

(***************************************************************************)
(* Dimension rollups, lines 855-968.                                       *)
(***************************************************************************)
\* Rollup keeping the groups whose sum is 0.
RollupWithZeroGroups(df, group_col, metric_col) ==
    LET keyOrder == <<"f1", "f2", "k1", "k2", "r1", "r2">>
        pos(x) == CHOOSE i \in 1..Len(keyOrder) : keyOrder[i] = x
        value(x) == SumCol(SelectSeq(df, LAMBDA r : r[group_col] = x), metric_col)
        keys == Options(df, group_col)
        before(y, x) == value(y) > value(x) \/ (value(y) = value(x) /\ pos(y) < pos(x))
        at == [k \in 1..Cardinality(keys) |->
                CHOOSE x \in keys : Cardinality({y \in keys : before(y, x)}) = k - 1]
        grouped == [k \in 1..Cardinality(keys) |-> [key |-> at[k], value |-> value(at[k])]]
        total_value == SumCol(grouped, "value")
    IN  [k \in 1..Len(grouped) |->
            [key |-> grouped[k].key, value |-> grouped[k].value,
             pct |-> Guarded(grouped[k].value * 100, total_value)]]

\* Lines 863-878 of render_group_bar: the sums of the metric per value of
\* group_col over the rows that have one (dropna), without the groups whose
\* sum is 0, by descending sum (groups of equal sum stay in the order of
\* their keys, as groupby returned them), each with its share pct of
\* total_value, the sum over the groups that are left; pct is the exact
\* fraction num/den, and 0 if total_value is 0.
Rollup(df, group_col, metric_col) ==
    LET keyOrder == <<"f1", "f2", "k1", "k2", "r1", "r2">>
        pos(x) == CHOOSE i \in 1..Len(keyOrder) : keyOrder[i] = x
        value(x) == SumCol(SelectSeq(df, LAMBDA r : r[group_col] = x), metric_col)
        keys == {x \in Options(df, group_col) : value(x) # 0}
        before(y, x) == value(y) > value(x) \/ (value(y) = value(x) /\ pos(y) < pos(x))
        at == [k \in 1..Cardinality(keys) |->
                CHOOSE x \in keys : Cardinality({y \in keys : before(y, x)}) = k - 1]
        grouped == [k \in 1..Cardinality(keys) |-> [key |-> at[k], value |-> value(at[k])]]
        total_value == SumCol(grouped, "value")
    IN  [k \in 1..Len(grouped) |->
            [key |-> grouped[k].key, value |-> grouped[k].value,
             pct |-> Guarded(grouped[k].value * 100, total_value)]]

NoRollups == [region |-> <<>>, channel |-> <<>>, family |-> <<>>]

\* Lines 949-978: the sections with a dimension column, one rollup each; a
\* rollup without a group shows a message in place of its chart.
RollupStage(df, d, metric_col) ==
    LET group_sections ==
            (IF RegionCol(d) # NoCol THEN <<[name |-> "region", col |-> RegionCol(d)]>> ELSE <<>>)
            \o (IF ClassCodeCol(d) # NoCol
                THEN <<[name |-> "channel", col |-> ClassCodeCol(d)]>> ELSE <<>>)
            \o (IF FamilyCol(d) # NoCol THEN <<[name |-> "family", col |-> FamilyCol(d)]>> ELSE <<>>)
        of(name) == LET s == SelectSeq(group_sections, LAMBDA g : g.name = name)
                    IN  IF s = <<>> THEN <<>> ELSE Rollup(df, s[1].col, metric_col)
        shown(k) == IF of(group_sections[k].name) = <<>>
                    THEN "info: no data to display"
                    ELSE "rollup chart"
    IN  IF group_sections # <<>> /\ metric_col # NoCol
        THEN [rollups |-> [region |-> of("region"), channel |-> of("channel"),
                           family |-> of("family")],
              page |-> <<"rollup heading">> \o [k \in 1..Len(group_sections) |-> shown(k)]]
        ELSE [rollups |-> NoRollups,
              page |-> IF metric_col = NoCol
                       THEN <<"info: cannot build group charts">> ELSE <<>>]
(***************************************************************************)
(* The script pass, lines 300-1392, as a function of the snapshot d, the   *)
(* environment e and the widget values w.                                  *)
(***************************************************************************)
NoFit == [raises |-> FALSE, level |-> 0, slope |-> 0]

\* The widget values of a pass that shows no widget.
DefaultWidgets ==
    [metric_choice |-> NoCol,
     selected_brands |-> {}, selected_categories |-> {}, selected_regions |-> {},
     selected_class_codes |-> {}, selected_family |-> "All", search_query |-> "",
     selected_item |-> 0, date_range |-> <<>>, forecast_horizon |-> 12, manual_growth_pct |-> 0,
     training_selection |-> <<>>, fit |-> NoFit,
     show_filtered_data |-> FALSE, toggle_label |-> "Show Filtered Data"]

NoViews ==
    [start |-> <<>>, brand |-> <<>>, category |-> <<>>, region |-> <<>>,
     channel |-> <<>>, family |-> <<>>, item |-> <<>>, date |-> <<>>]

\* RequiredTables without the item master.
RequiredTablesProcessedOnly == {"processed_data"}

\* Lines 302-307: the two tables the script reads; reading a table that the
\* file does not hold raises, and the pass stops with an error message.
RequiredTables == {"processed_data", "FGData"}

\* line 316
CanLink(d) == ProcessedItemCol(d.pcols) # NoCol /\ MasterItemCol(d.mcols) # NoCol

\* Lines 333-483: the view after each stage of the filter chain.
Chain(d, w) ==
    LET v0 == Merge(d)
        v1 == MultiSelectStage(v0, BrandCol(d), w.selected_brands)
        v2 == MultiSelectStage(v1, CategoryCol(d), w.selected_categories)
        v3 == MultiSelectStage(v2, RegionCol(d), w.selected_regions)
        v4 == MultiSelectStage(v3, ClassCodeCol(d), w.selected_class_codes)
        v5 == FamilyStage(v4, FamilyCol(d), w.selected_family)
        v6 == ItemStage(v5, ItemCol(d), w.selected_item)
        v7 == DateStage(v6, HasDates(d, v0), w.date_range)
    IN  [start |-> v0, brand |-> v1, category |-> v2, region |-> v3, channel |-> v4,
         family |-> v5, item |-> v6, date |-> v7]

\* lines 979-1148
AbcStage(df, cols, item_col, metric_col) ==
    IF metric_col # NoCol /\ metric_col \in cols /\ item_col # NoCol /\ item_col \in cols
    THEN LET Section(abc_source, xyz_source) ==
                 IF abc_source # <<>>
                 THEN [abc |-> abc_source,
                       xyz |-> [none |-> xyz_source.none, rows |-> xyz_source.rows,
                                result |-> ClassificationResult(abc_source, xyz_source)],
                       page |-> <<"abc heading">>
                                \o (IF xyz_source.none
                                    THEN <<"caption: XYZ classes default to Z">> ELSE <<>>)
                                \o <<"abc matrix", "abc table">>]
                 ELSE [abc |-> <<>>, xyz |-> NoXYZ,
                       page |-> <<"info: not enough item-level data">>]
         IN  Section(AbcSource(df, item_col, metric_col),
                     XyzSource(df, cols, item_col, metric_col))
    ELSE [abc |-> <<>>, xyz |-> NoXYZ, page |-> <<>>]

Pass(d, e, w) ==
    IF ~(RequiredTables \subseteq d.tables)
    THEN [merged |-> <<>>, views |-> NoViews, df_view |-> <<>>, offers |-> NoOffer,
          kpi |-> NoKPI, rollups |-> NoRollups, abc |-> <<>>, xyz |-> NoXYZ,
          fc |-> NoForecast,
          page |-> <<"error: reading required tables">>]
    ELSE IF ~CanLink(d)
    THEN [merged |-> <<>>, views |-> NoViews, df_view |-> <<>>, offers |-> NoOffer,
          kpi |-> NoKPI, rollups |-> NoRollups, abc |-> <<>>, xyz |-> NoXYZ, fc |-> NoForecast,
          page |-> <<"success: db loaded", "error: columns for linking not found">>]
    ELSE IF ~BodyRuns(Columns(d))
    THEN LET m == Merge(d)
         IN  [merged |-> m, views |-> [NoViews EXCEPT !.start = Labels(m)],
              df_view |-> m, offers |-> NoOffer, kpi |-> NoKPI, rollups |-> NoRollups,
              abc |-> <<>>,
              xyz |-> NoXYZ,
              fc |-> NoForecast,
              page |-> <<"success: db loaded">>]
    ELSE LET cols == Columns(d)
             metric_col == w.metric_choice
             \* the pass over the views c of the filter chain
             Body(c) ==
               LET df == c.date
                   \* what is shown, given the results of the stages
                   Shown(search, g, a, tr) ==
                     IF search.raises
                     THEN \* the exception of line 435 ends the pass before the item choice
                          [merged |-> c.start,
                           views |-> [s \in DOMAIN c |->
                                        IF s \in {"item", "date"} THEN <<>> ELSE Labels(c[s])],
                           df_view |-> c.family, offers |-> NoOffer, kpi |-> NoKPI,
                           rollups |-> NoRollups, abc |-> <<>>, xyz |-> NoXYZ,
                           fc |-> NoForecast,
                           page |-> <<"success: db loaded", "exception: search text">>]
                     ELSE
                     [merged |-> c.start,
                      views |-> [s \in DOMAIN c |-> Labels(c[s])],
                      df_view |-> df,
                      offers |-> [items |-> search.items, no_match |-> search.no_match,
                                  date_min |-> IF HasDates(d, c.start)
                                               THEN DateBounds(c.start, c.item).date_min
                                               ELSE 0,
                                  date_max |-> IF HasDates(d, c.start)
                                               THEN DateBounds(c.start, c.item).date_max
                                               ELSE 0],
                      kpi |-> KPI(df, cols, ItemCol(d), metric_col),
                      rollups |-> g.rollups,
                      abc |-> a.abc,
                      xyz |-> a.xyz,
                      fc |-> tr.fc,
                      page |-> <<"success: db loaded", "kpi cards", w.toggle_label>>
                               \o (IF w.show_filtered_data THEN <<"filtered data">> ELSE <<>>)
                               \o g.page \o a.page \o tr.page]
               IN  Shown(ItemSearch(c.family, d, w.search_query),
                         RollupStage(df, d, metric_col),
                         AbcStage(df, cols, ItemCol(d), metric_col),
                         TrendStage(df, cols, DateColName(MergedColumns(d)), e.statsmodels,
                                    w, metric_col))
         IN  Body(Chain(d, w))

(***************************************************************************)
(* The user: which widgets a user touches, and the values tried.  A widget *)
(* that is not touched keeps its default.                                  *)
(***************************************************************************)
Choices(touched, all, default) == IF touched THEN all ELSE {default}

\* line 347-352: the radio's default is its first option
DefaultMetric(cols) == IF "qty_soldx" \in cols THEN "qty_soldx" ELSE "sold_amount"

Days(df) == {DayOf(ts) : ts \in ValidDates(df)}

\* What the date_input of lines 473-478 can return: a (start, end) pair with
\* start <= end inside [date_min, date_max], or the 1-tuple of a selection in
\* progress.  The days tried are those that occur in the table.
DateChoices(m) ==
    {r \in Days(m) \X Days(m) : r[1] <= r[2]} \cup {<<a>> : a \in Days(m)}

DefaultDateRange(m) == <<DateMin(m), DateMax(m)>>

\* What the date_input of lines 1174-1179 returns: two dates inside
\* [training_min, training_max], in either order, or the 1-tuple of a
\* selection in progress.  The dates tried are the first two and the last
\* two month starts.
TrainingChoices(monthly) ==
    LET n == Len(monthly)
        ds == {MonthStart(monthly[k].Month) : k \in {1, 2, n - 1, n} \cap 1..n}
    IN  {<<a, b>> : a \in ds, b \in ds} \cup {<<a>> : a \in ds}

DefaultTraining(monthly) == <<TrainingMin(monthly), TrainingMax(monthly)>>

\* The trend stage reaches the training-window widget (lines 1151-1179).
HasTrainingWindow(d, df, metric_col) ==
    /\ metric_col \in Columns(d)
    /\ "_date_dt" \in Columns(d)
    /\ ValidDates(df) # {}

Emit(o) ==
    /\ merged' = o.merged
    /\ views' = o.views
    /\ df_view' = o.df_view
    /\ offers' = o.offers
    /\ kpi' = o.kpi
    /\ rollups' = o.rollups
    /\ abc' = o.abc
    /\ xyz' = o.xyz
    /\ fc' = o.fc
    /\ page' = o.page

\* One whole pass of the script (lines 300-1392) over the snapshot, with the
\* widget values of a user u.  A pass is a function of the snapshot, of the
\* widget values and of the library's answer alone: it reads nothing that an
\* earlier pass of the session wrote.  Each behaviour therefore follows one
\* pass, from the loaded snapshot.
Rerun(u) ==
    /\ page = <<>>
    /\ IF ~(RequiredTables \subseteq db.tables) \/ ~CanLink(db) \/ ~BodyRuns(Columns(db))
       THEN /\ widgets' = DefaultWidgets
            /\ Emit(Pass(db, env, DefaultWidgets))
       ELSE
        LET m == Merge(db)
            cols == Columns(db)
            o1 == Options(m, BrandCol(db)) IN
        \E mc \in Choices(u.metric, VolValOptions(cols), DefaultMetric(cols)) :
        \E sb \in Choices(u.multi, SUBSET o1, o1) :
        LET v1 == MultiSelectStage(m, BrandCol(db), sb)
            o2 == Options(v1, CategoryCol(db)) IN
        \E sc \in Choices(u.multi, SUBSET o2, o2) :
        LET v2 == MultiSelectStage(v1, CategoryCol(db), sc)
            o3 == Options(v2, RegionCol(db)) IN
        \E sr \in Choices(u.multi, SUBSET o3, o3) :
        LET v3 == MultiSelectStage(v2, RegionCol(db), sr)
            o4 == Options(v3, ClassCodeCol(db)) IN
        \E sk \in Choices(u.multi, SUBSET o4, o4) :
        LET v4 == MultiSelectStage(v3, ClassCodeCol(db), sk)
            o5 == Options(v4, FamilyCol(db)) IN
        \E sf \in Choices(u.family, {"All"} \cup o5, "All") :
        LET v5 == FamilyStage(v4, FamilyCol(db), sf) IN
        \E sq \in IF ItemCol(db) # NoCol THEN u.searches ELSE {""} :
        LET search == ItemSearch(v5, db, sq) IN
        \E si \in IF search.raises THEN {0} ELSE Choices(u.item, {0} \cup search.items, 0) :
        LET v6 == ItemStage(v5, ItemCol(db), si) IN
        \E dr \in IF HasDates(db, m) /\ ~search.raises
                  THEN Choices(u.dates, DateChoices(m), DefaultDateRange(m))
                  ELSE {<<>>} :
        LET df == DateStage(v6, HasDates(db, m), dr)
            hasWindow == ~search.raises /\ HasTrainingWindow(db, df, mc)
            monthly == IF hasWindow THEN Monthly(df, mc) ELSE <<>> IN
        \E ts \in IF hasWindow
                  THEN Choices(u.training, TrainingChoices(monthly), DefaultTraining(monthly))
                  ELSE {<<>>} :
        LET fits == hasWindow /\ env.statsmodels
                    /\ ~TrainingMaskRaises(monthly, ts)
                    /\ EnoughMonths(MonthlyTraining(monthly, ts)) IN
        \E h \in IF fits THEN u.horizons ELSE {DefaultWidgets.forecast_horizon} :
        \E g \in IF fits THEN u.growths ELSE {0} :
        \E f \in IF fits THEN u.fits ELSE {NoFit} :
        LET w == [metric_choice |-> mc, selected_brands |-> sb,
                  selected_categories |-> sc, selected_regions |-> sr,
                  selected_class_codes |-> sk, selected_family |-> sf,
                  search_query |-> sq, selected_item |-> si, date_range |-> dr, forecast_horizon |-> h,
                  manual_growth_pct |-> g, training_selection |-> ts, fit |-> f,
                  show_filtered_data |-> FALSE, toggle_label |-> "Show Filtered Data"] IN
            /\ widgets' = w
            /\ Emit(Pass(db, env, w))
    /\ UNCHANGED <<db, env>>
    /\ UNCHANGED sessVars

\* A further pass of the script over the same snapshot with the same widget
\* values, started by a click on the toggle button the last pass rendered
\* (clicked) or by something else.  Lines 837-846: the label is computed from
\* the session's flag as the last pass left it; st.sidebar.button returns
\* True only for the button that was clicked, and a button is identified by
\* its label (no key is given), so a click on a button whose label this pass
\* changes is not seen; a click that is seen flips the flag, and the table
\* is shown according to the flag after the flip.
RerunToggle(clicked) ==
    /\ \E i \in 1..Len(page) : page[i] = widgets.toggle_label
    /\ LET toggle_label == IF widgets.show_filtered_data
                           THEN "Hide Filtered Data" ELSE "Show Filtered Data"
           pressed == clicked /\ toggle_label = widgets.toggle_label
           w == [widgets EXCEPT !.toggle_label = toggle_label,
                                !.show_filtered_data = IF pressed THEN ~@ ELSE @]
       IN  /\ widgets' = w
           /\ Emit(Pass(db, env, w))
    /\ UNCHANGED <<db, env>>
    /\ UNCHANGED sessVars

BlankPass ==
    /\ widgets = DefaultWidgets
    /\ merged = <<>>
    /\ views = NoViews
    /\ df_view = <<>>
    /\ offers = NoOffer
    /\ kpi = NoKPI
    /\ rollups = NoRollups
    /\ abc = <<>>
    /\ xyz = NoXYZ
    /\ fc = NoForecast
    /\ page = <<>>

NextSessions ==
    /\ \E s \in Sessions :
        \/ Upload(s)
        \/ RemoveUpload(s)
        \/ StoreSnapshot(s)
        \/ AdoptSnapshot(s)
        \/ WriteSnapshot(s)
        \/ ReadProcessed(s)
        \/ ReadMaster(s)
        \/ EndSession(s)
    /\ UNCHANGED passVars

vars == <<temp_db, uploaded_file, db_bytes, uploads, session_start, pc, f_read, file_conn,
          processed_data, rendered,
          db, env, widgets, merged, views, df_view, offers, kpi, rollups, abc, xyz, fc, page>>

NoDb == [tables |-> {}, pcols |-> <<>>, processed |-> <<>>, mcols |-> <<>>, master |-> <<>>]

(***************************************************************************)
(* Snapshots and users the model is run on.                                *)
(***************************************************************************)
\* Column names of the two tables (spec section 6; lines 313-314, 341-344,
\* 369-410, 489-497).
ProcessedCols == <<"item_code", "date", "qty_soldx", "qty_returnedx", "sold_amount",
                   "total_disc">>
MasterCols == <<"ItemNumber", "ItemName", "Brand", "Category", "Region", "class_code",
                "Family">>

ProcessedRow(item, date, qty, ret, amount, disc) ==
    [item_code |-> item, date |-> date, qty_soldx |-> qty, qty_returnedx |-> ret,
     sold_amount |-> amount, total_disc |-> disc]

ItemNames == <<"alpha", "beta", "gamma">>

MasterRow(item, a) ==
    [ItemNumber |-> item, ItemName |-> ItemNames[item], Brand |-> a.Brand,
     Category |-> a.Category, Region |-> a.Region, class_code |-> a.class_code,
     Family |-> a.Family]

\* Item-master attributes tried: items of different brand, category, region,
\* channel and family; in MasterAttrsNoRegion the second item has no region.
MasterAttrs ==
    <<[Brand |-> "b1", Category |-> "c1", Region |-> "r1", class_code |-> "k1", Family |-> "f1"],
      [Brand |-> "b2", Category |-> "c2", Region |-> "r2", class_code |-> "k1", Family |-> "f2"],
      [Brand |-> "b1", Category |-> "c2", Region |-> "r2", class_code |-> "k2", Family |-> "f1"]>>

MasterAttrsNoRegion == [MasterAttrs EXCEPT ![2].Region = NULL]

\* The master table with one row for each of the items 1..n.
MasterOf(n, attrs) == [i \in 1..n |-> MasterRow(i, attrs[i])]

\* A row with only the columns `cols`.
Restrict(r, cols) == [c \in Range(cols) |-> r[c]]

Snapshot(pcols, processed, master) ==
    [tables |-> RequiredTables,
     pcols |-> pcols,
     processed |-> [i \in DOMAIN processed |-> Restrict(processed[i], pcols)],
     mcols |-> MasterCols,
     master |-> master]

\* Tables of at most n rows drawn from the sequence of row kinds `kinds`, up to
\* the order of the rows.
TablesUpTo(kinds, n) ==
    {[i \in DOMAIN s |-> kinds[s[i]]] :
        s \in {q \in UNION {[1..k -> DOMAIN kinds] : k \in 0..n} :
                    \A i \in 1..(Len(q) - 1) : q[i] <= q[i + 1]}}

\* The elements of a finite set, in some fixed order.
RECURSIVE SeqOf(_)
SeqOf(S) == IF S = {} THEN <<>> ELSE LET x == CHOOSE y \in S : TRUE
                                     IN  <<x>> \o SeqOf(S \ {x})

TheEnv == [statsmodels |-> TRUE]

InitPass(snapshots, envs) ==
    /\ InitSessions
    /\ db \in snapshots
    /\ env \in envs
    /\ BlankPass

\* --- the sessions and the shared file (no pass is modelled beyond line 310) ---
SpecSessions == InitPass({NoDb}, {TheEnv}) /\ [][NextSessions]_vars

\* --- the filter chain ---------------------------------------------------
MaxFilterRows == 2

\* Jan 15 2023 00:00, Feb 1 2023 12:00, and a missing date.
FilterDates == {23011500, 23020112, 0}

\* Items 1 and 2 have a master row, item code 3 has none.
FilterRowKinds ==
    SeqOf({ProcessedRow(i, dt, 1, 0, 1, 0) : i \in {1, 2, 3}, dt \in FilterDates})

FilterSnapshots ==
    {Snapshot(ProcessedCols, p, MasterOf(2, MasterAttrsNoRegion)) :
        p \in TablesUpTo(FilterRowKinds, MaxFilterRows)}

FilterUser ==
    [metric |-> FALSE, multi |-> TRUE, family |-> TRUE, searches |-> {""},
     item |-> TRUE, dates |-> TRUE, training |-> FALSE, horizons |-> {12}, growths |-> {0}, fits |-> {NoFit}]

InitFilter == InitPass(FilterSnapshots, {TheEnv})
NextFilter == Rerun(FilterUser)
SpecFilter == InitFilter /\ [][NextFilter]_vars

\* --- the KPI aggregator ---------------------------------------------------
MaxKpiRows == 2

\* The transactions table with all its columns, without one of the metric
\* columns, and with a "sales" column in place of "sold_amount".
KpiColumnSets ==
    {ProcessedCols,
     <<"item_code", "date", "qty_returnedx", "sold_amount", "total_disc">>,
     <<"item_code", "date", "qty_soldx", "sold_amount", "total_disc">>,
     <<"item_code", "date", "qty_soldx", "qty_returnedx", "sold_amount">>,
     <<"item_code", "date", "qty_soldx", "qty_returnedx", "total_disc">>,
     <<"item_code", "date", "qty_soldx", "qty_returnedx", "sales", "total_disc">>}

KpiRowKinds ==
    SeqOf({ProcessedRow(1, dt, q, r, a, 1) @@ [sales |-> a] :
                dt \in {23011500, 23020100}, q \in {0, 2}, r \in {0, 1}, a \in {0, 3}})

KpiSnapshots ==
    {Snapshot(c, p, MasterOf(2, MasterAttrs)) :
        c \in KpiColumnSets, p \in TablesUpTo(KpiRowKinds, MaxKpiRows)}

KpiUser ==
    [metric |-> TRUE, multi |-> FALSE, family |-> FALSE, searches |-> {""},
     item |-> FALSE, dates |-> FALSE, training |-> FALSE, horizons |-> {12}, growths |-> {0}, fits |-> {NoFit}]

InitKpi == InitPass(KpiSnapshots, {TheEnv})
NextKpi == Rerun(KpiUser)
SpecKpi == InitKpi /\ [][NextKpi]_vars

\* --- the ABC classification -------------------------------------------------
MaxAbcRows == 3

\* Sales values tried: 80 + 15 + 5 puts the cumulative shares on the class
\* boundaries, 81 + 19 puts the first item just above the A boundary, and
\* 5 - 5 gives an item the sum 0.
AbcAmounts == {-5, 5, 15, 19, 80, 81}

\* Items 1..3 have a master row, item code 4 has none.
AbcRowKinds ==
    SeqOf({ProcessedRow(i, 23011500, 1, 0, a, 0) : i \in 1..3, a \in AbcAmounts}
            \cup {ProcessedRow(4, 23011500, 1, 0, 5, 0)})

AbcSnapshots ==
    {Snapshot(ProcessedCols, p, MasterOf(3, MasterAttrs)) :
        p \in TablesUpTo(AbcRowKinds, MaxAbcRows)}

AbcUser ==
    [metric |-> TRUE, multi |-> FALSE, family |-> FALSE, searches |-> {""},
     item |-> TRUE, dates |-> FALSE, training |-> FALSE, horizons |-> {12}, growths |-> {0}, fits |-> {NoFit}]

SpecAbc == InitPass(AbcSnapshots, {TheEnv}) /\ [][Rerun(AbcUser)]_vars

\* --- the XYZ classification and the classification result ------------------
MaxXyzRows == 3

\* A snapshot whose master table has the columns mcols only.
SnapshotWith(pcols, processed, mcols, master) ==
    [tables |-> RequiredTables,
     pcols |-> pcols,
     processed |-> [i \in DOMAIN processed |-> Restrict(processed[i], pcols)],
     mcols |-> mcols,
     master |-> [i \in DOMAIN master |-> Restrict(master[i], mcols)]]

\* Monthly values tried for item 1: 5, 10, 15 has CV 0.5 and 0, 5, 10 has CV 1;
\* -5, 0 gives a negative mean, and -5, 5 the mean 0.
XyzAmounts == {-5, 0, 5, 10, 15}

\* January, February and March 2023.
XyzDates == {23011500, 23021500, 23031500}

\* Item 1 with dated rows and one undated row, item 2 with an undated and a
\* dated row, and item code 4, which has no master row, with a dated row.
XyzRowKinds ==
    SeqOf({ProcessedRow(1, dt, 1, 0, a, 0) : dt \in XyzDates, a \in XyzAmounts}
            \cup {ProcessedRow(1, 0, 1, 0, 20, 0),
                  ProcessedRow(2, 0, 1, 0, 5, 0),
                  ProcessedRow(2, 23011500, 1, 0, 5, 0),
                  ProcessedRow(4, 23011500, 1, 0, 5, 0)})

\* The transactions table here has no quantity column, so that the metric is
\* the sales value, and the master table no column to filter on, so that the
\* only filter stage is the date range.
XyzSnapshots ==
    {SnapshotWith(<<"item_code", "date", "qty_returnedx", "sold_amount", "total_disc">>,
                  p, <<"ItemNumber", "ItemName">>, MasterOf(2, MasterAttrs)) :
        p \in TablesUpTo(XyzRowKinds, MaxXyzRows)}

\* The date range is touched: it can be a 1-tuple, which skips the date stage
\* (line 480) and leaves the undated rows in the view.
XyzUser ==
    [metric |-> FALSE, multi |-> FALSE, family |-> FALSE, searches |-> {""},
     item |-> FALSE, dates |-> TRUE, training |-> FALSE, horizons |-> {12}, growths |-> {0}, fits |-> {NoFit}]

SpecXyz == InitPass(XyzSnapshots, {TheEnv}) /\ [][Rerun(XyzUser)]_vars

\* --- the item id column --------------------------------------------------------
MaxItemIdRows == 3

\* Spellings tried for the item id column of the master table.
ItemIdNames == {"ItemNumber", "itemnumber", "ITEMNUMBER"}

\* The master table of items 1 and 2 with its item id column named c.
MasterNamed(c) == [i \in 1..2 |-> (c :> i) @@ ("ItemName" :> ItemNames[i])]

\* Items 1 and 2 have a master row, item code 4 has none.
ItemIdRowKinds ==
    SeqOf({ProcessedRow(i, 23011500, 1, 0, a, 0) : i \in {1, 2, 4}, a \in {5, 10}})

ItemIdSnapshots ==
    {SnapshotWith(ProcessedCols, p, <<c, "ItemName">>, MasterNamed(c)) :
        c \in ItemIdNames, p \in TablesUpTo(ItemIdRowKinds, MaxItemIdRows)}

\* The user is the one of the ABC classification: metric and item are touched.
SpecItemId == InitPass(ItemIdSnapshots, {TheEnv}) /\ [][Rerun(AbcUser)]_vars

\* --- the forecast stage -----------------------------------------------------
MaxMonths == 13

\* The calendar months from January 2023 on, as periods YYMM.
RECURSIVE MonthNo(_)
MonthNo(k) == IF k = 1 THEN 2301 ELSE NextMonth(MonthNo(k - 1))

\* One row per month, on the first day of the month, for the first n months
\* except the month `gap` (0: no gap); the k-th month has the quantity and
\* the value 100, 110, 120 or 130.
MonthlyTable(n, gap) ==
    LET ks == SortedSeq((1..n) \ {gap})
    IN  [i \in 1..Len(ks) |->
            ProcessedRow(1, MonthNo(ks[i]) * 10000 + 100, 100 + 10 * (ks[i] % 4), 0,
                         100 + 10 * (ks[i] % 4), 0)]

ForecastSnapshots ==
    {Snapshot(ProcessedCols, MonthlyTable(ng[1], ng[2]), MasterOf(2, MasterAttrs)) :
        ng \in {x \in ((MaxMonths - 2)..MaxMonths) \X (0..MaxMonths) :
                    x[2] = 0 \/ (1 < x[2] /\ x[2] < x[1])}}
    \cup {Snapshot(ProcessedCols, MonthlyTable(1, 0), MasterOf(2, MasterAttrs))}

\* The library's answers tried: an exception, a flat and a rising projection.
FitOutcomes ==
    {[raises |-> TRUE, level |-> 0, slope |-> 0],
     [raises |-> FALSE, level |-> 100, slope |-> 0],
     [raises |-> FALSE, level |-> 90, slope |-> 5]}

\* Manual growth overrides tried, in tenths of a percent: 0, +10%, -100%, +200%.
GrowthChoices == {0, 100, -1000, 2000}

ForecastUser ==
    [metric |-> FALSE, multi |-> FALSE, family |-> FALSE, searches |-> {""},
     item |-> FALSE, dates |-> FALSE, training |-> TRUE, horizons |-> {6, 7}, growths |-> GrowthChoices,
     fits |-> FitOutcomes]

SpecForecast ==
    /\ InitPass(ForecastSnapshots, {[statsmodels |-> TRUE], [statsmodels |-> FALSE]})
    /\ [][Rerun(ForecastUser)]_vars

\* --- the monthly rates ---------------------------------------------------------
MaxKpiMonths == 24

\* Tables of one row per month, for the first n months with or without a
\* gap; tables of the first n months with the quantity 100 in every month,
\* in one row on the first day of the month or, for January 2023, in two
\* rows of 50 on the 1st and the 15th, followed or not by a row without a
\* date; and tables whose only rows have no date.
MonthsSnapshots ==
    LET Dated(k, day, q) == ProcessedRow(1, MonthNo(k) * 10000 + day * 100, q, 0, q, 0)
        Undated == ProcessedRow(1, 0, 7, 0, 7, 0)
        Flat(n, split) ==
            [k \in 1..n |-> Dated(k, 1, IF k = 1 /\ split THEN 50 ELSE 100)]
                \o (IF split THEN <<Dated(1, 15, 50)>> ELSE <<>>)
    IN  {Snapshot(ProcessedCols, MonthlyTable(ng[1], ng[2]), MasterOf(2, MasterAttrs)) :
            ng \in {x \in (0..MaxKpiMonths) \X (0..MaxKpiMonths) :
                        x[2] = 0 \/ (1 < x[2] /\ x[2] < x[1])}}
        \cup {Snapshot(ProcessedCols, Flat(n, split) \o tail, MasterOf(2, MasterAttrs)) :
                n \in 1..MaxKpiMonths, split \in BOOLEAN, tail \in {<<>>, <<Undated>>}}
        \cup {Snapshot(ProcessedCols, p, MasterOf(2, MasterAttrs)) :
                p \in {<<Undated>>, <<Undated, Undated>>}}

SpecMonths == InitPass(MonthsSnapshots, {TheEnv}) /\ [][Rerun(KpiUser)]_vars

\* --- the filtered-data toggle ------------------------------------------------------
\* A first pass over a snapshot of the KPI checks, followed by any number of
\* passes with or without a click on the toggle button.
SpecToggle ==
    InitPass(KpiSnapshots, {TheEnv})
        /\ [][Rerun(KpiUser) \/ \E clicked \in BOOLEAN : RerunToggle(clicked)]_vars

\* --- the item search ---------------------------------------------------------------
\* The snapshots of the filter chain, with and without an item-name column
\* in the item master; the user types a search text and picks an item.
SpecSearch ==
    InitPass({SnapshotWith(ProcessedCols, p, mcols, MasterOf(2, MasterAttrs)) :
                mcols \in {MasterCols,
                           <<"ItemNumber", "Brand", "Category", "Region", "class_code", "Family">>},
                p \in TablesUpTo(FilterRowKinds, MaxFilterRows)},
             {TheEnv})
        /\ [][Rerun([metric |-> FALSE, multi |-> FALSE, family |-> FALSE,
                     searches |-> {"", "1", "alp", "ALP", "zzz", "("},
                     item |-> TRUE, dates |-> FALSE, training |-> FALSE, horizons |-> {12},
                     growths |-> {0}, fits |-> {NoFit}])]_vars

\* --- reading and linking the tables ---------------------------------------------
\* Files that hold both tables, one of them or none, transactions tables with
\* and without the item-code column, item masters with and without the
\* item-number column, and at most one transaction.
SpecLoad ==
    InitPass({[SnapshotWith(pcols, p, mcols, MasterOf(2, MasterAttrs)) EXCEPT !.tables = tb] :
                tb \in SUBSET RequiredTables,
                pcols \in {ProcessedCols,
                           <<"date", "qty_soldx", "qty_returnedx", "sold_amount", "total_disc">>},
                mcols \in {MasterCols,
                           <<"ItemName", "Brand", "Category", "Region", "class_code", "Family">>},
                p \in TablesUpTo(KpiRowKinds, 1)},
             {TheEnv})
        /\ [][Rerun(KpiUser)]_vars

\* C1: a session whose last pass stored its own current upload renders the
\* tables of that upload, never those uploaded by another session.
C1_SessionRendersOwnUpload ==
    \A s \in Sessions :
        (pc[s] = "idle" /\ uploaded_file[s] # NoFile /\ db_bytes[s] = uploaded_file[s]
            /\ rendered[s].kind = "dashboard")
        => rendered[s].data = uploaded_file[s] /\ rendered[s].master = uploaded_file[s]


(***************************************************************************)
(* Properties.                                                             *)
(***************************************************************************)
PassDone == page # <<>>
OnPage(x) == \E i \in 1..Len(page) : page[i] = x
Count(x) == Cardinality({i \in 1..Len(page) : page[i] = x})
\* The rows of the merged table with the given row labels.
RowsAt(labels) == [i \in 1..Len(labels) |-> merged[labels[i] + 1]]
\* The values other than "missing" of a column, among the rows with the given labels.
OfferedAt(labels, col) == {merged[l + 1][col] : l \in Range(labels)} \ {NULL}

\* A multi-select stage left at its default of all offers values keeps
\* every row of the view it receives.
UntouchedKeepsAll(before, after, col, selected) ==
    (col # NoCol /\ selected = OfferedAt(before, col)) => after = before

\* C2: a multi-select filter (brand, category, region, channel) left at its
\* default of all offers values selected removes no row of the view it
\* receives, rows with a missing value in that dimension included.
C2_UntouchedMultiSelectIsNoOp ==
    OnPage("kpi cards") =>
        /\ UntouchedKeepsAll(views.start, views.brand, BrandCol(db), widgets.selected_brands)
        /\ UntouchedKeepsAll(views.brand, views.category, CategoryCol(db),
                             widgets.selected_categories)
        /\ UntouchedKeepsAll(views.category, views.region, RegionCol(db),
                             widgets.selected_regions)
        /\ UntouchedKeepsAll(views.region, views.channel, ClassCodeCol(db),
                             widgets.selected_class_codes)

\* For the KPI checks: the sum of a column over the filtered view, 0 if the
\* view has no such column.
ViewTotal(col) ==
    IF \E i \in 1..Len(df_view) : col \in DOMAIN df_view[i]
    THEN SumCol(df_view, col)
    ELSE 0

\* C3: every pass over a readable, joinable snapshot reports total quantity,
\* total returns, total sales value and total discount, each 0 if its column
\* is absent; a missing sales-value column does not prevent the others.
C3_TotalsReportedForEveryTable ==
    (PassDone /\ CanLink(db)) =>
        /\ kpi.shown
        /\ kpi.total_qty = ViewTotal("qty_soldx")
        /\ kpi.total_returns = ViewTotal("qty_returnedx")
        /\ kpi.total_sales =
                (IF "sold_amount" \in Columns(db) THEN ViewTotal("sold_amount")
                 ELSE ViewTotal("sales"))
        /\ kpi.total_discount = ViewTotal("total_disc")

\* For the ABC checks: the item ids of the filtered view, an item's metric
\* sum over the filtered view, and sums over the classification result.
ViewItems == {df_view[i]["ItemNumber"] : i \in 1..Len(df_view)} \ {NaN}
ViewItemSum(x) ==
    SumCol(SelectSeq(df_view, LAMBDA r : r["ItemNumber"] = x), widgets.metric_choice)
AbcRunningSum(k) == SumCol(SubSeq(abc, 1, k), "metric_total")
AbcGrandTotal == SumCol(abc, "metric_total")
AbcClassSum(c) == SumCol(SelectSeq(abc, LAMBDA r : r.ABC = c), "metric_total")
AbcOrd(c) == CASE c = "A" -> 1 [] c = "B" -> 2 [] c = "C" -> 3

\* C4: items are ranked by descending metric sum, and the class of each item
\* is decided by its cumulative share (running sum up to and including its
\* rank over the grand total): A if <= 80%, B if > 80% and <= 95%, else C.
C4_AbcByCumulativeShare ==
    \A k \in 1..Len(abc) :
        /\ abc[k].metric_total = ViewItemSum(abc[k].item)
        /\ k < Len(abc) => abc[k].metric_total >= abc[k + 1].metric_total
        /\ abc[k].cumulative_pct = [num |-> 100 * AbcRunningSum(k), den |-> AbcGrandTotal]
        /\ abc[k].ABC =
            (IF 100 * AbcRunningSum(k) <= 80 * AbcGrandTotal THEN "A"
             ELSE IF 100 * AbcRunningSum(k) <= 95 * AbcGrandTotal THEN "B"
             ELSE "C")

\* C4 witness: the first item alone contributes 81% of the total and is B.
C4_Witness ==
    /\ Len(abc) >= 2
    /\ 100 * abc[1].metric_total = 81 * AbcGrandTotal
    /\ abc[1].ABC = "B"

\* C5: exactly the items with a positive metric sum are classified, each once
\* and in one of A, B, C, and the sums of the three classes add up to the
\* grand total the cumulative shares are taken of.
C5_AbcPartition ==
    OnPage("kpi cards") =>
        /\ {abc[k].item : k \in 1..Len(abc)} = {x \in ViewItems : ViewItemSum(x) > 0}
        /\ \A j, k \in 1..Len(abc) : abc[j].item = abc[k].item => j = k
        /\ \A k \in 1..Len(abc) :
            /\ abc[k].ABC \in {"A", "B", "C"}
            /\ abc[k].cumulative_pct.den
                    = AbcClassSum("A") + AbcClassSum("B") + AbcClassSum("C")

\* C5 witness: two classes are populated and an item with a non-positive sum
\* is left out.
C5_Witness ==
    /\ OnPage("abc matrix")
    /\ \E j, k \in 1..Len(abc) : abc[j].ABC # abc[k].ABC
    /\ \E x \in ViewItems : ViewItemSum(x) <= 0

\* C6: an item whose cumulative share is <= another's never has a worse
\* class; the A items are a prefix of the ranking and the C items a suffix.
C6_AbcMonotone ==
    \A j, k \in 1..Len(abc) :
        /\ abc[j].cumulative_pct.num <= abc[k].cumulative_pct.num
                => AbcOrd(abc[j].ABC) <= AbcOrd(abc[k].ABC)
        /\ j < k => AbcOrd(abc[j].ABC) <= AbcOrd(abc[k].ABC)

\* C6 witness: three ranked items in the classes A, B and C.
C6_Witness ==
    /\ Len(abc) = 3
    /\ abc[1].ABC = "A" /\ abc[2].ABC = "B" /\ abc[3].ABC = "C"

\* For the forecast checks: the distinct months with data of the filtered
\* view that lie in the selected training window, and what the forecast
\* stage can emit.
TrainingMonths ==
    LET a == widgets.training_selection[1]
        b == widgets.training_selection[Len(widgets.training_selection)]
        lo == IF a <= b THEN a ELSE b
        hi == IF a <= b THEN b ELSE a
    IN  {p \in {PeriodM(ts) : ts \in ValidDates(df_view)} :
            lo <= MonthStart(p) /\ MonthStart(p) <= hi}
ForecastOutputs ==
    {"forecast heading", "forecast chart", "forecast download", "growth heading",
     "growth chart", "growth table", "growth download", "forecast caption"}
ViewMonthSum(p) ==
    SumCol(SelectSeq(df_view, LAMBDA r : r["_date_dt"] # NaT /\ PeriodM(r["_date_dt"]) = p),
           widgets.metric_choice)

\* C7: a model is fitted only when the training window holds at least 12
\* distinct months with data; with 11 or fewer no model is fitted, nothing of
\* the forecast is emitted and a message explains why.
C7_ForecastNeedsTwelveMonths ==
    /\ fc.fit_called => (fc.window /\ Cardinality(TrainingMonths) >= 12)
    /\ (fc.window /\ Cardinality(TrainingMonths) <= 11) =>
        /\ ~fc.fit_called
        /\ fc.forecast = <<>>
        /\ \A x \in ForecastOutputs : ~OnPage(x)
        /\ OnPage("info: need at least 12 months")
            \/ OnPage("info: forecasts require statsmodels")

\* C8: when the forecast stage raises, exactly one warning is emitted,
\* nothing of the forecast (heading, chart, download, yearly growth) is
\* emitted, and the earlier outputs of the pass are there.
C8_FailedForecastLeavesNoOutput ==
    fc.raised =>
        /\ Count("warning: unable to compute forecast") = 1
        /\ \A x \in ForecastOutputs : ~OnPage(x)
        /\ OnPage("kpi cards") /\ OnPage("trend chart")

\* C9: every forecast point is the library's projection times
\* (1 + pct / 100), which is the projection itself for pct = 0, and the actual
\* series is the training series whatever the override.
C9_GrowthOverrideScalesForecast ==
    (fc.fit_called /\ ~fc.raised) =>
        /\ Len(fc.forecast) = widgets.forecast_horizon
        /\ \A i \in 1..Len(fc.forecast) :
            /\ fc.projection[i] = Projection(widgets.fit, widgets.forecast_horizon)[i]
            /\ widgets.manual_growth_pct = 0
                    => fc.forecast[i].Milli = 1000 * fc.projection[i]
            /\ widgets.manual_growth_pct # 0
                    => fc.forecast[i].Milli
                            = (1000 + widgets.manual_growth_pct) * fc.projection[i]
        /\ \A k \in 1..Len(fc.actual) :
            fc.actual[k].MetricValue =
                (IF fc.actual[k].Month \in TrainingMonths
                 THEN ViewMonthSum(fc.actual[k].Month) ELSE 0)

\* C9 witness: an override of +10% on a non-zero projection.
C9_Witness ==
    /\ fc.fit_called /\ ~fc.raised
    /\ widgets.manual_growth_pct = 100
    /\ fc.projection[1] # 0
    /\ fc.forecast[1].Milli = 1100 * fc.projection[1]

\* For the filter checks: s is a sub-sequence of the strictly increasing t.
SubLabels(s, t) ==
    /\ Range(s) \subseteq Range(t)
    /\ \A i \in 1..(Len(s) - 1) : s[i] < s[i + 1]

\* C10: every row of the filtered view is a row of the merged table,
\* unchanged and not repeated, and every filter stage keeps a part of the
\* view it receives.
C10_FilteredViewIsSubset ==
    /\ \A i \in 1..Len(df_view) :
        /\ df_view[i]["_idx"] + 1 \in 1..Len(merged)
        /\ df_view[i] = merged[df_view[i]["_idx"] + 1]
    /\ \A i \in 1..(Len(df_view) - 1) : df_view[i]["_idx"] < df_view[i + 1]["_idx"]
    /\ views.date = Labels(df_view)
    /\ SubLabels(views.brand, views.start)
    /\ SubLabels(views.category, views.brand)
    /\ SubLabels(views.region, views.category)
    /\ SubLabels(views.channel, views.region)
    /\ SubLabels(views.family, views.channel)
    /\ SubLabels(views.item, views.family)
    /\ SubLabels(views.date, views.item)

\* C10 witness: a family is chosen and the view holds some but not all rows.
C10_Witness ==
    /\ widgets.selected_family # "All"
    /\ 0 < Len(df_view) /\ Len(df_view) < Len(merged)

\* For the filter checks: the rows a multi-select stage keeps under the
\* selection s1 are among those it keeps under every wider selection s2 of
\* the offers values.
WiderKeepsMore(before, after, col, s1) ==
    col # NoCol =>
        \A s2 \in SUBSET OfferedAt(before, col) :
            s1 \subseteq s2 =>
                Range(after) \subseteq
                    Range(Labels(MultiSelectStage(RowsAt(before), col, s2)))

\* C11: with the other filters fixed, a more restrictive selection of a
\* multi-select filter (the empty selection included) never keeps a row that
\* a wider selection removes.
C11_NarrowerSelectionKeepsFewerRows ==
    OnPage("kpi cards") =>
        /\ WiderKeepsMore(views.start, views.brand, BrandCol(db), widgets.selected_brands)
        /\ WiderKeepsMore(views.brand, views.category, CategoryCol(db),
                          widgets.selected_categories)
        /\ WiderKeepsMore(views.category, views.region, RegionCol(db),
                          widgets.selected_regions)
        /\ WiderKeepsMore(views.region, views.channel, ClassCodeCol(db),
                          widgets.selected_class_codes)

\* C12: under a two-date range [start, end] a row is kept exactly when its
\* timestamp falls on a calendar day from start to end, both included; under
\* the default range no row with a valid date is removed.
C12_DateRangeKeepsWholeDays ==
    (OnPage("kpi cards") /\ Len(widgets.date_range) = 2) =>
        Range(views.date) =
            {l \in Range(views.item) :
                /\ merged[l + 1]["_date_dt"] # NaT
                /\ widgets.date_range[1] <= DayOf(merged[l + 1]["_date_dt"])
                /\ DayOf(merged[l + 1]["_date_dt"]) <= widgets.date_range[2]}

\* For the XYZ checks: the sum of the metric over the dated rows of an item
\* in the filtered view (the item's mean monthly value times its number of
\* months), and "cv >= 0" on the exact representation.
DatedSum(item) ==
    SumCol(SelectSeq(df_view, LAMBDA r : r["ItemNumber"] = item /\ r["_date_dt"] # NaT),
           widgets.metric_choice)
NonNegativeCV(cv) == cv.kind = "num" /\ (cv.neg => cv.sq_num = 0)

\* C13: every item with a computed variability has either a non-zero mean and
\* a coefficient of variation >= 0, or the mean 0 and the class Z; the
\* coefficient is infinite exactly when the mean is 0.
C13_CvNonNegativeOrZ ==
    \A k \in 1..Len(xyz.rows) :
        LET v == xyz.rows[k]
        IN  /\ \/ DatedSum(v.item) # 0 /\ NonNegativeCV(v.cv)
               \/ DatedSum(v.item) = 0 /\ v.XYZ = "Z"
            /\ (v.cv.kind = "inf") <=> (DatedSum(v.item) = 0)

\* The months in which the item has a dated row in the filtered view, the
\* item's sum in a month, and the sum of the squares of its monthly sums.
ViewItemMonths(item) ==
    {PeriodM(df_view[i]["_date_dt"]) :
        i \in {j \in 1..Len(df_view) :
                df_view[j]["ItemNumber"] = item /\ df_view[j]["_date_dt"] # NaT}}
ViewItemMonthSum(item, p) ==
    SumCol(SelectSeq(df_view, LAMBDA r : r["ItemNumber"] = item /\ r["_date_dt"] # NaT
                                         /\ PeriodM(r["_date_dt"]) = p),
           widgets.metric_choice)
RECURSIVE SumOfSquares(_, _)
SumOfSquares(item, months) ==
    IF months = {} THEN 0
    ELSE LET p == CHOOSE x \in months : TRUE
         IN  ViewItemMonthSum(item, p) * ViewItemMonthSum(item, p)
                + SumOfSquares(item, months \ {p})

\* The class of n monthly values of sum s and sum of squares q: with the
\* sample variance var = (n q - s^2) / (n (n - 1)) and the mean s / n,
\* CV <= c iff var <= c^2 mean^2 when the mean is positive.
ExpectedXyz(n, s, q) ==
    IF s = 0 THEN "Z"
    ELSE IF s < 0 \/ n = 1 THEN "X"
    ELSE IF 4 * n * (n * q - s * s) <= (n - 1) * s * s THEN "X"
    ELSE IF n * (n * q - s * s) <= (n - 1) * s * s THEN "Y"
    ELSE "Z"

\* C14: an item's coefficient of variation is taken over the monthly sums of
\* the months in which the item has a dated row, no other month counting as a
\* zero, and the item is X if CV <= 0.5, Y if 0.5 < CV <= 1.0, Z otherwise.
C14_CvOverObservedMonths ==
    /\ \A k \in 1..Len(xyz.rows) :
        LET v == xyz.rows[k]
            months == ViewItemMonths(v.item)
        IN  /\ v.months = Cardinality(months)
            /\ v.sum = DatedSum(v.item)
            /\ v.XYZ = ExpectedXyz(Cardinality(months), DatedSum(v.item),
                                   SumOfSquares(v.item, months))
    /\ \A k \in 1..Len(xyz.result) :
        LET c == xyz.result[k]
        IN  ViewItemMonths(c.item) # {} =>
                c.XYZ = ExpectedXyz(Cardinality(ViewItemMonths(c.item)), DatedSum(c.item),
                                    SumOfSquares(c.item, ViewItemMonths(c.item)))

\* C14 witness: a classified item with rows in two of the three months of the
\* view and a CV between 0.5 and 1.
C14_Witness ==
    \E k \in 1..Len(xyz.result) :
        /\ Cardinality(ViewItemMonths(xyz.result[k].item)) = 2
        /\ Cardinality({PeriodM(ts) : ts \in ValidDates(df_view)}) = 3
        /\ xyz.result[k].XYZ = "Y"

\* C15: when the filtered view has no usable date value, every classified
\* item is Z and the notice of the degraded mode is emitted with the
\* classification; the notice is emitted in that case only.
C15_DegradedXyzIsFlagged ==
    /\ (OnPage("abc table") /\ ValidDates(df_view) = {}) =>
            /\ \A k \in 1..Len(xyz.result) : xyz.result[k].XYZ = "Z"
            /\ Count("caption: XYZ classes default to Z") = 1
    /\ OnPage("caption: XYZ classes default to Z") =>
            (OnPage("abc table") /\ ValidDates(df_view) = {})

\* The filtered view has a row with a valid date and an item id.
ViewHasDatedItem ==
    \E i \in 1..Len(df_view) :
        df_view[i]["_date_dt"] # NaT /\ df_view[i]["ItemNumber"] # NaN

\* C15 as amended: when no row of the filtered view has both a valid date and
\* an item id (in particular when the view has no usable date value), every
\* classified item is Z and the notice is emitted with the classification;
\* the notice is emitted in that case only.
C15_DegradedXyzIsFlaggedAmended ==
    /\ (OnPage("abc table") /\ ~ViewHasDatedItem) =>
            /\ \A k \in 1..Len(xyz.result) :
                    xyz.result[k].XYZ = "Z" /\ xyz.result[k].cv.kind = "na"
            /\ Count("caption: XYZ classes default to Z") = 1
    /\ OnPage("caption: XYZ classes default to Z") =>
            (OnPage("abc table") /\ ~ViewHasDatedItem)

\* C15 witness: a classification over a view without any valid date, with
\* the notice.
C15_Witness ==
    /\ OnPage("abc table")
    /\ ValidDates(df_view) = {}
    /\ Len(xyz.result) >= 1
    /\ OnPage("caption: XYZ classes default to Z")

\* C16: the classification result holds exactly the items of the ABC ranking,
\* each once and with its ABC class; an item of the ranking without an entry
\* in the XYZ computation (none of its rows has a valid date, while rows of
\* other items have one) is Z.
C16_ResultIsAbcLeftJoinXyz ==
    /\ Len(xyz.result) = Len(abc)
    /\ \A k \in 1..Len(xyz.result) :
        /\ xyz.result[k].item = abc[k].item
        /\ xyz.result[k].ABC = abc[k].ABC
        /\ \A j \in 1..Len(xyz.result) : xyz.result[j].item = xyz.result[k].item => j = k
        /\ (ViewHasDatedItem /\ ViewItemMonths(xyz.result[k].item) = {})
                => xyz.result[k].XYZ = "Z"

\* C16 witness: two classified items, one with a computed class X, the other
\* without any dated row and therefore Z.
C16_Witness ==
    /\ OnPage("abc table")
    /\ ~OnPage("caption: XYZ classes default to Z")
    /\ \E k, j \in 1..Len(xyz.result) :
        /\ ViewItemMonths(xyz.result[k].item) = {}
        /\ xyz.result[k].XYZ = "Z"
        /\ ViewItemMonths(xyz.result[j].item) # {}
        /\ xyz.result[j].XYZ = "X"

\* For the item id checks: the item ids of the filtered view, read in the
\* column the join was made on, and an item's metric sum there.
JoinedIds ==
    {df_view[i][MasterItemCol(db.mcols)] : i \in 1..Len(df_view)} \ {NaN}
JoinedIdSum(x) ==
    SumCol(SelectSeq(df_view, LAMBDA r : r[MasterItemCol(db.mcols)] = x),
           widgets.metric_choice)

\* C17: whenever the join succeeds on a master column named 'itemnumber' in
\* any letter case, that column is the item id of the item filter, of the
\* unique item count and of the ABC-XYZ classification.
C17_ItemIdWhateverTheCase ==
    (PassDone /\ CanLink(db) /\ kpi.shown) =>
        /\ kpi.unique_items = Cardinality(JoinedIds)
        /\ {abc[k].item : k \in 1..Len(abc)} = {x \in JoinedIds : JoinedIdSum(x) > 0}
        /\ {xyz.result[k].item : k \in 1..Len(xyz.result)}
                = {x \in JoinedIds : JoinedIdSum(x) > 0}
        /\ widgets.selected_item # 0 =>
                \A i \in 1..Len(df_view) :
                    df_view[i][MasterItemCol(db.mcols)] = widgets.selected_item

\* C18: a session started after an earlier session of its slot has uploaded
\* and ended, and that has itself uploaded nothing, shows the upload prompt
\* (or nothing yet), never a dashboard.
C18_SnapshotEndsWithItsSession ==
    \A s \in Sessions :
        (session_start[s] > 0 /\ uploads[s] = session_start[s] /\ pc[s] = "idle")
            => rendered[s].kind \in {"nothing", "upload prompt"}

\* For the KPI checks: the fraction f is the quotient n / d when d is not 0,
\* and is 0 when d is 0.
IsQuotientOrZero(f, n, d) ==
    /\ f.den # 0
    /\ d # 0 => f.num * d = n * f.den
    /\ d = 0 => f.num = 0

\* C19: returns % = total returns / total quantity x 100, discount % = total
\* discount / total sales x 100 and unit price = total sales / total quantity,
\* each 0 when its denominator total is 0, for every filtered view.
C19_RatiosGuardedAgainstZero ==
    kpi.shown =>
        /\ IsQuotientOrZero(kpi.returns_pct, ViewTotal("qty_returnedx") * 100,
                            ViewTotal("qty_soldx"))
        /\ IsQuotientOrZero(kpi.discount_pct, ViewTotal("total_disc") * 100,
                            ViewTotal("sold_amount"))
        /\ IsQuotientOrZero(kpi.kg_price, ViewTotal("sold_amount"), ViewTotal("qty_soldx"))

\* C19 witness: a view with returns and sales but a total quantity of 0.
C19_Witness ==
    /\ kpi.shown
    /\ Len(df_view) > 0
    /\ ViewTotal("qty_soldx") = 0
    /\ ViewTotal("qty_returnedx") > 0
    /\ ViewTotal("sold_amount") > 0
    /\ kpi.returns_pct.num = 0
    /\ kpi.kg_price.num = 0

\* The distinct calendar year-months among the valid dates of the filtered view.
ViewMonths == {PeriodM(df_view[i]["_date_dt"]) :
                    i \in {j \in 1..Len(df_view) : df_view[j]["_date_dt"] # NaT}}
\* The quantity sold in the year-month m, over the filtered view.
ViewMonthQty(m) ==
    SumCol(SelectSeq(df_view, LAMBDA r : r["_date_dt"] # NaT /\ PeriodM(r["_date_dt"]) = m),
           "qty_soldx")

\* C20: the month count is the number of distinct calendar year-months among
\* the valid dates of the filtered view, and every monthly rate is its total
\* divided by that count, or 0 when the count is 0; 24 months of a constant
\* monthly quantity of 100 give the total quantity 2400 and the monthly
\* quantity 100.
C20_MonthlyRatesOverDistinctMonths ==
    kpi.shown =>
        /\ kpi.months_in_view = Cardinality(ViewMonths)
        /\ IsQuotientOrZero(kpi.monthly_qty, ViewTotal("qty_soldx"), Cardinality(ViewMonths))
        /\ IsQuotientOrZero(kpi.monthly_returns, ViewTotal("qty_returnedx"),
                            Cardinality(ViewMonths))
        /\ IsQuotientOrZero(kpi.monthly_sales, ViewTotal("sold_amount"),
                            Cardinality(ViewMonths))
        /\ IsQuotientOrZero(kpi.monthly_metric, ViewTotal(widgets.metric_choice),
                            Cardinality(ViewMonths))
        /\ (Cardinality(ViewMonths) = 24
                /\ \A i \in 1..Len(df_view) : df_view[i]["_date_dt"] # NaT
                /\ \A m \in ViewMonths : ViewMonthQty(m) = 100)
            => /\ kpi.total_qty = 2400
               /\ kpi.monthly_qty.num = 100 * kpi.monthly_qty.den

\* C20 witness: 24 months of data with the quantity 100 in every month, one
\* of the months in two rows of 50, and in the table a row without a date
\* that the view does not hold: 25 rows in the view, 24 months counted, the
\* total 2400 and the monthly quantity 100.
C20_Witness ==
    /\ kpi.shown
    /\ Len(merged) = 26
    /\ Len(df_view) = 25
    /\ \E i \in 1..Len(df_view) : df_view[i]["qty_soldx"] = 50
    /\ \A m \in ViewMonths : ViewMonthQty(m) = 100
    /\ kpi.months_in_view = 24
    /\ kpi.total_qty = 2400
    /\ kpi.monthly_qty.num = 100 * kpi.monthly_qty.den

\* The column behind each rollup of the last pass.
DimCol(dim) ==
    CASE dim = "region" -> "Region" [] dim = "channel" -> "class_code" [] dim = "family" -> "Family"
\* The metric sum of the rows of the view whose dimension value is x.
DimSum(dim, x) ==
    SumCol(SelectSeq(df_view, LAMBDA r : r[DimCol(dim)] = x), widgets.metric_choice)
\* The dimension values of the view, a missing value left out, whose sum is not 0.
DimKept(dim) ==
    {x \in {df_view[i][DimCol(dim)] : i \in 1..Len(df_view)} \ {NULL} : DimSum(dim, x) # 0}
RECURSIVE PctNumSum(_)
PctNumSum(rows) == IF rows = <<>> THEN 0 ELSE Head(rows).pct.num + PctNumSum(Tail(rows))
\* The shares of the rows, fractions of one denominator, add up to 100.
SharesAddTo100(rows) ==
    /\ \A k \in 1..Len(rows) : rows[k].pct.den = rows[1].pct.den
    /\ PctNumSum(rows) = 100 * rows[1].pct.den
\* The rows are the kept dimension values with their sums, by descending sum.
RollupGroups(dim) ==
    LET rows == rollups[dim]
    IN  /\ Len(rows) = Cardinality(DimKept(dim))
        /\ {rows[k].key : k \in 1..Len(rows)} = DimKept(dim)
        /\ \A k \in 1..Len(rows) : rows[k].value = DimSum(dim, rows[k].key)
        /\ \A k \in 1..(Len(rows) - 1) : rows[k].value >= rows[k + 1].value

\* C21 (as stated): each rollup holds exactly the dimension values whose
\* metric sum over the rows with a value in that dimension is not 0, by
\* descending sum; each share is the group's sum divided by the sum of the
\* retained groups, times 100, and the shares add up to 100 whenever a group
\* is retained.
C21_RollupSharesAddTo100 ==
    PassDone /\ OnPage("rollup heading") =>
        \A dim \in {"region", "channel", "family"} :
            LET rows == rollups[dim]
                total == SumCol(rows, "value")
            IN  /\ RollupGroups(dim)
                /\ \A k \in 1..Len(rows) :
                    /\ total # 0
                    /\ rows[k].pct.num * total = rows[k].value * 100 * rows[k].pct.den
                /\ rows # <<>> => SharesAddTo100(rows)

\* C21 (amended): each rollup holds exactly the dimension values whose metric
\* sum is not 0, by descending sum; when the sum of the retained groups is
\* not 0, each share is the group's sum divided by it, times 100, and the
\* shares add up to 100; when the retained sums cancel to 0, every share is 0.
C21_RollupSharesOfRetainedTotal ==
    PassDone /\ OnPage("rollup heading") =>
        \A dim \in {"region", "channel", "family"} :
            LET rows == rollups[dim]
                total == SumCol(rows, "value")
            IN  /\ RollupGroups(dim)
                /\ \A k \in 1..Len(rows) :
                    IF total # 0
                    THEN rows[k].pct.num * total = rows[k].value * 100 * rows[k].pct.den
                    ELSE rows[k].pct.num = 0
                /\ rows # <<>> /\ total # 0 => SharesAddTo100(rows)

\* Two regions of different sums are retained and share a non-zero total.
C21_Witness ==
    /\ PassDone
    /\ Len(rollups.region) = 2
    /\ rollups.region[1].value > rollups.region[2].value
    /\ SumCol(rollups.region, "value") # 0
    /\ SharesAddTo100(rollups.region)

\* C22: a training window given as (a, b) with a > b yields the same training
\* months, the same forecast decision and the same forecast and yearly
\* growth results, and the same page, as the window (b, a).
C22_TrainingWindowOrderIrrelevant ==
    (PassDone /\ fc.window /\ Len(widgets.training_selection) = 2) =>
        LET swapped == [widgets EXCEPT !.training_selection = <<@[2], @[1]>>]
            other == Pass(db, env, swapped)
        IN  /\ other.fc.monthly_training = fc.monthly_training
            /\ other.fc.fit_called = fc.fit_called
            /\ other.fc.forecast = fc.forecast
            /\ other.fc.growth = fc.growth
            /\ other.fc = fc
            /\ other.page = page

\* C22 witness: a window given end first, which leaves out a month of the
\* view and still holds enough months: the model is fitted and the yearly
\* growth table is built.
C22_Witness ==
    /\ PassDone /\ fc.window
    /\ Len(widgets.training_selection) = 2
    /\ widgets.training_selection[1] > widgets.training_selection[2]
    /\ Len(fc.monthly_training) < Len(fc.monthly)
    /\ fc.fit_called /\ ~fc.raised
    /\ fc.forecast # <<>> /\ fc.growth # <<>>

\* The calendar months (1..12) of the dated rows of the view, and the sum and
\* the number of the rows of one of them.
ViewMonthNums == {MonthNum(ts) : ts \in ValidDates(df_view)}
ViewMonthNumRows(m) ==
    SelectSeq(df_view, LAMBDA r : r["_date_dt"] # NaT /\ MonthNum(r["_date_dt"]) = m)
\* The sum of the per-month averages of the months in ms, as a fraction.
RECURSIVE AvgSum(_)
AvgSum(ms) ==
    IF ms = {} THEN [num |-> 0, den |-> 1]
    ELSE LET m == CHOOSE x \in ms : TRUE
             rest == AvgSum(ms \ {m})
             rows == ViewMonthNumRows(m)
         IN  [num |-> rest.num * Len(rows) + SumCol(rows, widgets.metric_choice) * rest.den,
              den |-> rest.den * Len(rows)]
RECURSIVE IndexNumSum(_)
IndexNumSum(rows) ==
    IF rows = <<>> THEN 0 ELSE Head(rows).SeasonalIndex.num + IndexNumSum(Tail(rows))

\* C23: the seasonal index has one row per calendar month with a dated row in
\* the filtered view; a month's index times the mean of the per-month
\* averages is that month's average metric over the view; with all 12
\* calendar months present the index values average to 1; and the index is
\* that of the pass with the full training window (the window does not enter
\* it).  The index is shown exactly when the mean of the averages is not 0.
C23_SeasonalIndexOverWholeView ==
    (PassDone /\ fc.window) =>
        LET total == AvgSum(ViewMonthNums)
            n == Cardinality(ViewMonthNums)
            full == [widgets EXCEPT !.training_selection = DefaultTraining(fc.monthly)]
        IN  /\ OnPage("seasonal index") <=> total.num # 0
            /\ fc.seasonal # <<>> <=> total.num # 0
            /\ fc.seasonal # <<>> =>
                /\ Len(fc.seasonal) = n
                /\ \A k \in 1..Len(fc.seasonal) :
                    LET row == fc.seasonal[k]
                        rows == ViewMonthNumRows(row.MonthNum)
                    IN  /\ row.MonthNum \in ViewMonthNums
                        /\ k > 1 => fc.seasonal[k - 1].MonthNum < row.MonthNum
                        /\ row.avg_metric.num * Len(rows)
                                = SumCol(rows, widgets.metric_choice) * row.avg_metric.den
                        /\ row.SeasonalIndex.num * total.num * Len(rows)
                                = SumCol(rows, widgets.metric_choice)
                                    * row.SeasonalIndex.den * total.den * n
                        /\ row.SeasonalIndex.den = fc.seasonal[1].SeasonalIndex.den
                /\ n = 12 => IndexNumSum(fc.seasonal) = 12 * fc.seasonal[1].SeasonalIndex.den
            /\ fc.seasonal = Pass(db, env, full).fc.seasonal

\* The years (YY) of the training months and of the forecast months of the
\* last pass, and a year's actual and forecast totals in thousandths.
ActualYears == {fc.monthly_training[i].Month \div 100 : i \in 1..Len(fc.monthly_training)}
ForecastYears == {fc.forecast[i].Month \div 100 : i \in 1..Len(fc.forecast)}
YearActualMilli(y) ==
    1000 * SumCol(SelectSeq(fc.monthly_training, LAMBDA r : r.Month \div 100 = y), "MetricValue")
YearForecastMilli(y) ==
    SumCol(SelectSeq(fc.forecast, LAMBDA r : r.Month \div 100 = y), "Milli")
RECURSIVE Gcd(_, _)
Gcd(a, b) == IF b = 0 THEN a ELSE Gcd(b, a % b)
Abs(a) == IF a < 0 THEN 0 - a ELSE a
\* The quotients n1 / d1 and n2 / d2 are the same number (a divisor 0 only
\* matches a divisor 0, with a numerator of the same sign).
SameQuotient(n1, d1, n2, d2) ==
    LET g1 == Gcd(Abs(n1), Abs(d1))
        g2 == Gcd(Abs(n2), Abs(d2))
        s1 == IF d1 < 0 THEN 0 - 1 ELSE 1
        s2 == IF d2 < 0 THEN 0 - 1 ELSE 1
    IN  IF g1 = 0 \/ g2 = 0 THEN g1 = g2
        ELSE /\ (s1 * n1) \div g1 = (s2 * n2) \div g2
             /\ (s1 * d1) \div g1 = (s2 * d2) \div g2

\* C24: the yearly growth table has exactly one row per calendar year with
\* training-window actual months or forecast months, in ascending year
\* order; a row's total is the sum of the year's actual and forecast monthly
\* values; its type is the blended one exactly when the year has both kinds
\* of months; the first row has no YoY value and every later row's YoY is
\* (total - previous total) / previous total x 100.
C24_YearlyGrowthTable ==
    (PassDone /\ fc.fit_called /\ ~fc.raised) =>
        LET g == fc.growth IN
        /\ OnPage("growth table")
        /\ Len(g) = Cardinality(ActualYears \cup ForecastYears)
        /\ {g[k].Year : k \in 1..Len(g)} = ActualYears \cup ForecastYears
        /\ \A k \in 1..Len(g) :
            /\ k > 1 => g[k - 1].Year < g[k].Year
            /\ g[k].TotalMilli = YearActualMilli(g[k].Year) + YearForecastMilli(g[k].Year)
            /\ g[k].Type = "Actual+Forecast"
                    <=> (g[k].Year \in ActualYears /\ g[k].Year \in ForecastYears)
            /\ g[k].Type = "Actual"
                    <=> (g[k].Year \in ActualYears /\ g[k].Year \notin ForecastYears)
            /\ g[k].Type = "Forecast"
                    <=> (g[k].Year \notin ActualYears /\ g[k].Year \in ForecastYears)
            /\ g[k].YoY.na <=> k = 1
            /\ k > 1 =>
                SameQuotient(g[k].YoY.num, g[k].YoY.den,
                             (g[k].TotalMilli - g[k - 1].TotalMilli) * 100,
                             g[k - 1].TotalMilli)

\* C24 witness: 13 training months, so that 2024 has one actual month and the
\* forecast months: two rows, the second blended, with a YoY value below 0.
C24_Witness ==
    /\ PassDone /\ fc.fit_called /\ ~fc.raised
    /\ Len(fc.monthly_training) = 13
    /\ Len(fc.growth) = 2
    /\ fc.growth[1].Type = "Actual" /\ fc.growth[1].YoY.na
    /\ fc.growth[2].Type = "Actual+Forecast"
    /\ fc.growth[2].TotalMilli > 0
    /\ fc.growth[2].TotalMilli < fc.growth[1].TotalMilli
    /\ fc.growth[2].YoY.num < 0 /\ fc.growth[2].YoY.den > 0

\* C25: when a required table cannot be read, or the item-id join column is
\* found in the transactions table or in the item master no more, the pass
\* emits an error message and nothing else of the dashboard: no filtered
\* view, KPI, rollup, classification, trend or forecast.
C25_UnreadableOrUnlinkableHalts ==
    LET readable == "processed_data" \in db.tables /\ "FGData" \in db.tables
        inProcessed == \E c \in Range(db.pcols) :
                            Lower(c) \in {"item_code", "itemnumber", "itemcode"}
        inMaster == \E c \in Range(db.mcols) : Lower(c) = "itemnumber"
    IN  (PassDone /\ (~readable \/ ~inProcessed \/ ~inMaster)) =>
            /\ IF readable
               THEN page = <<"success: db loaded", "error: columns for linking not found">>
               ELSE page = <<"error: reading required tables">>
            /\ views = NoViews /\ df_view = <<>> /\ merged = <<>>
            /\ kpi = NoKPI /\ rollups = NoRollups
            /\ abc = <<>> /\ xyz = NoXYZ /\ fc = NoForecast

\* C25 witness: a file without the item master, whose transactions table has
\* a row and the item-code column: the pass shows the read error alone.
C25_Witness ==
    /\ PassDone
    /\ db.tables = {"processed_data"}
    /\ db.processed # <<>>
    /\ "item_code" \in Range(db.pcols)
    /\ page = <<"error: reading required tables">>
    /\ ~kpi.shown

\* The items of the view the item filter receives (the view after the family
\* stage), and whether the search text is part of an item's id, name or
\* "id - name" label, letter case apart.
ItemsBeforeItemStage ==
    {merged[l + 1]["ItemNumber"] : l \in Range(views.family)} \ {NaN}
SearchTextIn(x) ==
    LET lowered == Lower(widgets.search_query)
        named == "ItemName" \in Range(db.mcols)
    IN  \/ lowered = "1" /\ x = 1
        \/ lowered = "alp" /\ named /\ ItemNames[x] = "alpha"

\* C26: the search text narrows the offers item choices only.  While the
\* item choice is "All" the pass shows what it shows without a search text
\* (same view, same KPIs, same page); the offers items are those the text
\* is part of, and all the items of the view when it is part of none.
C26_SearchNarrowsChoicesOnly ==
    (PassDone /\ "ItemNumber" \in Range(db.mcols)) =>
        LET plain == Pass(db, env, [widgets EXCEPT !.search_query = ""])
            hits == {x \in ItemsBeforeItemStage : SearchTextIn(x)}
        IN  /\ widgets.selected_item = 0 =>
                /\ plain.df_view = df_view
                /\ plain.kpi = kpi
                /\ plain.page = page
            /\ offers.items = IF widgets.search_query = "" \/ hits = {}
                               THEN ItemsBeforeItemStage ELSE hits

\* The valid timestamps of the joined table of the last pass.
MergedDates == {merged[i]["_date_dt"] : i \in 1..Len(merged)} \ {NaT}

\* C27: the dates offered as the bounds of the date-range filter are the days
\* of the earliest and of the latest valid date of the joined table, whatever
\* was selected in the brand, category, region, channel, family and item
\* filters of the pass.
C27_DateBoundsFromUnfilteredTable ==
    (PassDone /\ kpi.shown /\ MergedDates # {}) =>
        /\ offers.date_min = SetMin(MergedDates) \div 100
        /\ offers.date_max = SetMax(MergedDates) \div 100

\* C27 witness: the filters before the date range leave only rows dated after
\* the earliest date of the joined table, which is still the bound offered.
C27_Witness ==
    /\ PassDone /\ kpi.shown
    /\ views.item # <<>>
    /\ Len(views.item) < Len(merged)
    /\ \A l \in Range(views.item) :
            /\ merged[l + 1]["_date_dt"] # NaT
            /\ merged[l + 1]["_date_dt"] \div 100 > offers.date_min
    /\ offers.date_min = SetMin(MergedDates) \div 100
    /\ offers.date_max > offers.date_min

\* C28: in every ABC ranking with at least one item the lowest-ranked item
\* has the cumulative share 100% and the class C; a ranking of a single item
\* (for instance after one item was picked in the item filter) has that item
\* in class C and no item in class A.
C28_LowestRankedIsC ==
    (PassDone /\ abc # <<>>) =>
        /\ abc[Len(abc)].cumulative_pct.num = 100 * abc[Len(abc)].cumulative_pct.den
        /\ abc[Len(abc)].ABC = "C"
        /\ Len(abc) = 1 => \A k \in 1..Len(abc) : abc[k].ABC # "A"

\* C28 witness: the joined table has several items with sales, one item is
\* picked in the item filter, and the ranking is that item alone, in class C.
C28_Witness ==
    /\ PassDone
    /\ widgets.selected_item # 0
    /\ Cardinality({merged[i]["ItemNumber"] : i \in 1..Len(merged)} \ {NaN}) >= 2
    /\ Len(abc) = 1
    /\ abc[1].item = widgets.selected_item
    /\ abc[1].metric_total > 0
    /\ abc[1].ABC = "C"

\* The items of the view that have dated rows in exactly one month, with a
\* sum other than 0 in that month.
SingleMonthItems ==
    {x \in ViewItems :
        /\ Cardinality(ViewItemMonths(x)) = 1
        /\ \A p \in ViewItemMonths(x) : ViewItemMonthSum(x, p) # 0}

\* C29: an item with dated rows in exactly one calendar month of the view and
\* a non-zero sum in it has a variability row with CV 0 (the missing sample
\* deviation counts as 0) and class X, and class X, not the default Z, in
\* the classification result if it is ranked.
C29_SingleMonthItemIsX ==
    (PassDone /\ OnPage("abc table")) =>
        \A x \in SingleMonthItems :
            /\ ~xyz.none
            /\ \E j \in 1..Len(xyz.rows) : xyz.rows[j].item = x
            /\ \A j \in 1..Len(xyz.rows) :
                xyz.rows[j].item = x =>
                    /\ xyz.rows[j].cv.kind = "num"
                    /\ xyz.rows[j].cv.sq_num = 0
                    /\ xyz.rows[j].XYZ = "X"
            /\ \A k \in 1..Len(xyz.result) :
                xyz.result[k].item = x =>
                    /\ xyz.result[k].XYZ = "X"
                    /\ xyz.result[k].cv.kind = "num" /\ xyz.result[k].cv.sq_num = 0

\* C29 witness: a ranked item whose dated rows lie in one month, next to an
\* item with several months; its CV is 0 and its class X.
C29_Witness ==
    /\ PassDone /\ OnPage("abc table")
    /\ \E x \in SingleMonthItems :
        /\ \E k \in 1..Len(xyz.result) :
            /\ xyz.result[k].item = x
            /\ xyz.result[k].XYZ = "X"
            /\ xyz.result[k].cv.kind = "num" /\ xyz.result[k].cv.sq_num = 0
        /\ \E y \in ViewItems : y # x /\ Cardinality(ViewItemMonths(y)) >= 2

\* C30: in every pass that renders the toggle, the button reads "Hide
\* Filtered Data" exactly when the filtered-data table is displayed in that
\* pass and "Show Filtered Data" exactly when it is not.
C30_ToggleLabelMatchesDisplay ==
    (PassDone /\ (OnPage("Show Filtered Data") \/ OnPage("Hide Filtered Data"))) =>
        /\ OnPage("Hide Filtered Data") <=> OnPage("filtered data")
        /\ OnPage("Show Filtered Data") <=> ~OnPage("filtered data")

====
